---- MODULE Spec2Model ----
(***************************************************************************)
(* Order sequencing and lifecycle core of the delivery server              *)
(* (server/currentOrder.js): concurrent POST / PUT / PATCH handlers of     *)
(* /api/current-orders running against the current_orders table, and the  *)
(* broadcastToAdmins publish that follows each committed mutation.         *)
(*                                                                         *)
(* A handler runs in steps that end at an await, so handlers of different  *)
(* requests interleave where the event loop lets them.  Awaits between     *)
(* which no other handler can change what this one reads are one step:     *)
(* beginTransaction with the locking read, rollback with the back-off      *)
(* sleep, the UPDATE with what precedes it, the re-read with the answer    *)
(* and the broadcast that follow it synchronously.                         *)
(*                                                                         *)
(* The store is the production store (MySQL, db.js): statements of an open *)
(* transaction are invisible to others until COMMIT, the locking read of   *)
(* allocateDailySeq sees the latest committed rows, AUTO_INCREMENT ids are *)
(* not given back on rollback.  The locking read is modelled as taking no  *)
(* lock that delays other readers: this is the weakest behaviour the       *)
(* handler itself prepares for (its ER_DUP_ENTRY retry), so every          *)
(* interleaving of a stricter lock is among those explored here.           *)
(* The table's uniqueness key on (company_id, order_seq_date, order_seq),  *)
(* which raises the ER_DUP_ENTRY the handler retries on, is taken from the *)
(* specification: the production DDL is not part of the sources.           *)
(***************************************************************************)
EXTENDS Integers, Sequences, FiniteSets, TLC

\* ---------------------------------------------------------------- bounds
MaxReqs == 3        \* requests handled in one run
MaxNow  == 2        \* last instant of the clock
ConnectionLimit == 2   \* handlers in flight at once (the pool's connections)
DayLen  == 2        \* clock instants per UTC calendar day
MaxItems == 2
MaxRows == 3
MaxBuf == 5       \* items of a request's selectedItems
MaxAuthReqs == 4   \* 2FA requests of the one user
MaxConns == 2      \* connection objects of the SQLite adapter
MaxWrites == 3     \* statements that write through the SQLite adapter
MaxSockets == 2    \* WebSocket connections made
MaxBroadcasts == 2 \* calls of broadcastToAdmins by the message handler

\* ------------------------------------------------------ program constants
MaxAttempts == 5    \* attempts < 5
NullTs      == -1   \* b.scheduledAt || null

Reqs        == 1..MaxReqs
Tenants     == {1, 2}
OrderTypes  == {"active", "preorder"}
Instants    == 0..MaxNow
\* request bodies: an order for now, and a preorder scheduled on the last day
OrderInputs == {[orderType |-> "active", scheduledAt |-> NullTs],
                [orderType |-> "preorder", scheduledAt |-> MaxNow]}
\* the statuses of the lifecycle (rowToPanelDto's list)
Statuses == {"new", "ready", "enroute", "paused", "cancelled"}
\* PATCH bodies: two statuses of the lifecycle and a string that is none
StatusInputs == {"ready", "cancelled", "shipped"}
PutStatusInputs == {"new"}                 \* b.status || "new", status left out

VARIABLES
    now,        \* the wall clock (Date.now())
    rows,       \* committed rows of current_orders
    nextId,     \* AUTO_INCREMENT counter of current_orders.order_id
    pending,    \* per request: rows inserted by its open transaction
    pc,         \* per request: position of its handler
    req,        \* per request: what the handler was called with
    attempts,   \* per request: let attempts
    nextSeq,    \* per request: const nextSeq
    seqDate,    \* per request: const order_seq_date
    orderNo,    \* per request: Date.now() as taken for const orderNo
    insertId,   \* per request: result.insertId (0 while result is unset)
    affected,   \* per request: affectedRows of its UPDATE
    seen,       \* per request: the order ids committed in its partition when its
                \* transaction was opened (history, read by no action)
    aborted,    \* the allocations of transactions rolled back on an error other
                \* than a sequence conflict (history, read by no action)
    err,        \* per request: the error last caught
    resp,       \* per request: HTTP status answered (0: none yet)
    events,     \* the calls of broadcastToAdmins, in order
    written,    \* the amount columns as last written, with the body they came from
    call,       \* the last call of a function that touches no table: its name,
                \* its argument and what it returned
    clients,    \* wss.clients: the sockets, with what the server keeps on each
    released,   \* per request: the calls of conn.release() it has made
    users,      \* the row of table users the 2FA requests are about
    twoFA,      \* per 2FA request: its handler, where it stands, its locals
    db,         \* the better-sqlite3 database handle of createSqlitePool
    conns,      \* the objects getConnection() of the SQLite adapter returned
    state       \* const state = new Map(): the last location of each courier

vars == <<now, rows, nextId, pending, pc, req, attempts, nextSeq, seqDate,
          orderNo, insertId, affected, seen, aborted, err, resp, events, written,
          call, clients, released, users, twoFA, db, conns, state>>

\* ------------------------------------------------------------- helpers
\* the body fields a create must carry: b.customer, b.phone, b.payment
RequiredFields == {"customer", "phone", "payment"}
\* bodies: complete, or with one of the required fields left out
BodyFieldInputs == {RequiredFields} \cup {RequiredFields \ {f} : f \in RequiredFields}

NoReq == [kind |-> "none", companyId |-> 0, id |-> 0, orderType |-> "active",
          scheduledAt |-> NullTs, status |-> "new", fields |-> RequiredFields]

\* mutant of Validate: the checks are left out
ValidateNothing(fields) == 0

\* if (!b.customer || !b.phone) return res.status(400)...;
\* if (!b.payment) return res.status(400)...;         (0: the body passes)
Validate(fields) ==
    IF "customer" \notin fields \/ "phone" \notin fields THEN 400
    ELSE IF "payment" \notin fields THEN 400
    ELSE 0

\* new Date(x).toISOString().slice(0, 10): the UTC calendar day of an instant
UTCDate(ts) == ts \div DayLen

\* mutant of deriveOrderSeqDate: the order type is not looked at
deriveOrderSeqDateAnyType(orderType, scheduledAt) ==
    IF scheduledAt # NullTs THEN UTCDate(scheduledAt) ELSE UTCDate(now)

\* mutant of deriveOrderSeqDate: the preorder branch left out
deriveOrderSeqDateNow(orderType, scheduledAt) == UTCDate(now)

deriveOrderSeqDate(orderType, scheduledAt) ==
    IF orderType = "preorder" /\ scheduledAt # NullTs
    THEN UTCDate(scheduledAt)
    ELSE UTCDate(now)

SetMax(S) == CHOOSE m \in S : \A x \in S : x <= m

\* what a statement run on the connection of request conn reads
Visible(conn) == rows \cup pending[conn]

\* the seqs a statement on conn finds in a partition
SeqsOf(conn, companyId, orderSeqDate) ==
    {o.order_seq : o \in {x \in Visible(conn) :
         x.company_id = companyId /\ x.order_seq_date = orderSeqDate}}

\* mutants of allocateDailySeq: the + 1 left out; the company_id filter left
\* out; a step of two; counting down
allocateDailySeqNoPlus(conn, companyId, orderSeqDate) ==
    LET seqs == SeqsOf(conn, companyId, orderSeqDate)
    IN  IF seqs = {} THEN 0 ELSE SetMax(seqs)

allocateDailySeqAnyTenant(conn, companyId, orderSeqDate) ==
    LET seqs == {o.order_seq : o \in {x \in Visible(conn) :
                     x.order_seq_date = orderSeqDate}}
    IN  (IF seqs = {} THEN 0 ELSE SetMax(seqs)) + 1

allocateDailySeqSkip(conn, companyId, orderSeqDate) ==
    LET seqs == SeqsOf(conn, companyId, orderSeqDate)
    IN  (IF seqs = {} THEN 0 ELSE SetMax(seqs)) + 2

allocateDailySeqMinus(conn, companyId, orderSeqDate) ==
    LET seqs == SeqsOf(conn, companyId, orderSeqDate)
    IN  (IF seqs = {} THEN 2 ELSE SetMax(seqs)) - 1

\* SELECT COALESCE(MAX(order_seq), 0) ... WHERE company_id=? AND order_seq_date=?
allocateDailySeq(conn, companyId, orderSeqDate) ==
    LET seqs == SeqsOf(conn, companyId, orderSeqDate)
    IN  (IF seqs = {} THEN 0 ELSE SetMax(seqs)) + 1

\* the uniqueness constraint on (company_id, order_seq_date, order_seq)
SameKey(o, c, d, s) ==
    o.company_id = c /\ o.order_seq_date = d /\ o.order_seq = s

\* mutant of DupEntry: the table has no such constraint
DupEntryNever(c, d, s) == FALSE

DupEntry(c, d, s) == \E o \in rows : SameKey(o, c, d, s)

\* an uncommitted row of another transaction holds the key: the INSERT waits
KeyHeld(r, c, d, s) ==
    \E q \in Reqs \ {r} : \E o \in pending[q] : SameKey(o, c, d, s)

\* ------------------------------------------------------------ subscribers
\* wss.clients while the requests are served: the sockets of an admin of
\* tenant 1, an admin of tenant 2, a courier, and an admin of tenant 1 whose
\* socket has closed. companyId is the tenant of the user behind the socket
\* (the server keeps none on ws); since is the number of broadcasts made
\* before the socket last said hello (history, read by no action), got the
\* broadcasts its hello was answered with
WsClients ==
    {[id |-> 1, clientType |-> "admin",   companyId |-> 1, readyState |-> "OPEN",
      since |-> 0, got |-> {}],
     [id |-> 2, clientType |-> "admin",   companyId |-> 2, readyState |-> "OPEN",
      since |-> 0, got |-> {}],
     [id |-> 3, clientType |-> "courier", companyId |-> 1, readyState |-> "OPEN",
      since |-> 0, got |-> {}],
     [id |-> 4, clientType |-> "admin",   companyId |-> 1, readyState |-> "CLOSED",
      since |-> 0, got |-> {}]}

\* broadcastToAdmins(payload): the sockets ws.send(msg) is called on
\*   wss.clients.forEach((ws) => {
\*     if (ws.readyState === ws.OPEN && ws.clientType === 'admin') ws.send(msg) })
broadcastToAdmins(payload) ==
    {ws.id : ws \in {w \in clients : w.readyState = "OPEN" /\ w.clientType = "admin"}}

\* crypto.randomUUID(): a value no earlier call returned, here the number of
\* the call among the broadcasts
randomUUID == Len(events) + 1

\* what a call of broadcastToAdmins does: it returns after the sends, or it
\* throws (JSON.stringify, or ws.send on the first socket) before any send
PublishOutcomes == {"sent", "throws"}

\* a call of broadcastToAdmins as the log keeps it: the payload, how the call
\* ended and the sockets it was sent to
Sent(payload, out) ==
    payload @@ [outcome |-> out,
                to |-> IF out = "throws" THEN {} ELSE broadcastToAdmins(payload)]

\* res.json / res.status(s).json on a response: the first call answers, a
\* later one finds the headers sent, throws and changes nothing
FirstAnswer(answered, status) == IF answered # 0 THEN answered ELSE status

\* mutant of Answered: broadcastToAdmins is called before res.json
AnsweredAfterPublish(status, out) == IF out = "throws" THEN 500 ELSE status

\* the answer of a handler that called res.json with the status and then
\* broadcastToAdmins: a throw of the broadcast takes it to the catch, whose
\* res.status(500).json comes second
Answered(status, out) ==
    IF out = "throws" THEN FirstAnswer(status, 500) ELSE status

rowToPanelDto(o) ==
    [id |-> o.order_id, orderSeq |-> o.order_seq, orderDay |-> o.order_seq_date,
     orderType |-> o.order_type, status |-> o.status,
     scheduledAt |-> o.scheduled_at]

\* SELECT co.* ... WHERE co.company_id=? AND co.order_id=? LIMIT 1
SelectOrder(companyId, id) ==
    {o \in rows : o.company_id = companyId /\ o.order_id = id}

\* handlers in flight, each holding what pool.getConnection() gave it
InFlight == {q \in Reqs : pc[q] \notin {"idle", "done"}}

\* requests are taken up in the order of their slots, and no more of them run
\* at once than the pool has connections
CanStart(r) ==
    /\ pc[r] = "idle"
    /\ IF r = 1 THEN TRUE ELSE pc[r - 1] # "idle"
    /\ Cardinality(InFlight) < ConnectionLimit

\* tenants are interchangeable: the first request is tenant 1's
CallerTenants(r) == IF r = 1 THEN {1} ELSE Tenants

\* mutant of Exit: the connection is released after the success answer only
ExitReleaseOnSuccess(r, status) ==
    /\ pc' = [pc EXCEPT ![r] = "done"]
    /\ resp' = [resp EXCEPT ![r] = status]
    /\ released' = [released EXCEPT ![r] =
                       IF req[r].kind = "create" /\ status = 200 THEN @ + 1 ELSE @]
    /\ req' = [req EXCEPT ![r] = [NoReq EXCEPT !.kind = req[r].kind,
                                               !.companyId = req[r].companyId,
                                               !.fields = req[r].fields]]
    /\ attempts' = [attempts EXCEPT ![r] = 0]
    /\ nextSeq' = [nextSeq EXCEPT ![r] = 0]
    /\ seqDate' = [seqDate EXCEPT ![r] = 0]
    /\ orderNo' = [orderNo EXCEPT ![r] = 0]
    /\ seen' = [seen EXCEPT ![r] = {}]

\* the handler returns: its locals are gone, what stays is what the caller
\* was answered (resp) and what the request did to the table (insertId,
\* affected).  The create handler, the only one that holds a connection
\* (conn), leaves through finally { if (conn) conn.release(); }
Exit(r, status) ==
    /\ pc' = [pc EXCEPT ![r] = "done"]
    /\ resp' = [resp EXCEPT ![r] = status]
    /\ released' = [released EXCEPT ![r] = IF req[r].kind = "create" THEN @ + 1 ELSE @]
    /\ req' = [req EXCEPT ![r] = [NoReq EXCEPT !.kind = req[r].kind,
                                               !.companyId = req[r].companyId,
                                               !.fields = req[r].fields]]
    /\ attempts' = [attempts EXCEPT ![r] = 0]
    /\ nextSeq' = [nextSeq EXCEPT ![r] = 0]
    /\ seqDate' = [seqDate EXCEPT ![r] = 0]
    /\ orderNo' = [orderNo EXCEPT ![r] = 0]
    /\ seen' = [seen EXCEPT ![r] = {}]

\* no call yet
NoCall == [fn |-> "none"]

\* nothing written yet
NoWrite == [kind |-> "none", selectedItems |-> <<>>, supplied |-> FALSE,
            amount_subtotal |-> 0, amount_discount |-> 0, amount_total |-> 0]

\* users.totp_secret VARCHAR(64) NULL, users.totp_enabled BOOLEAN NOT NULL
\* DEFAULT FALSE: the row of a user who never set 2FA up
NoTotp == [totp_secret |-> "NULL", totp_enabled |-> FALSE]

AuthReqs == 1..MaxAuthReqs

\* a 2FA request not made yet
NoAuthReq == [fn |-> "none", pc |-> "idle", secret |-> "NULL", resp |-> 0]

Conns == 1..MaxConns

\* Database(filename): nothing written, no transaction open.  main is what
\* the handle reads, journal what ROLLBACK takes it back to
EmptyDb == [main |-> {}, journal |-> {}, inTransaction |-> FALSE]

\* a connection object getConnection() has not returned yet.  last is the
\* method last called on it, threw the method whose call threw
NoConn == [made |-> FALSE, inTransaction |-> FALSE, last |-> "none", threw |-> "none"]

\* ---------------------------------------------------------------- Init
Init ==
    /\ now = 0
    /\ rows = {}
    /\ nextId = 1
    /\ pending = [r \in Reqs |-> {}]
    /\ pc = [r \in Reqs |-> "idle"]
    /\ req = [r \in Reqs |-> NoReq]
    /\ attempts = [r \in Reqs |-> 0]
    /\ nextSeq = [r \in Reqs |-> 0]
    /\ seqDate = [r \in Reqs |-> 0]
    /\ orderNo = [r \in Reqs |-> 0]
    /\ insertId = [r \in Reqs |-> 0]
    /\ affected = [r \in Reqs |-> 0]
    /\ seen = [r \in Reqs |-> {}]
    /\ aborted = {}
    /\ err = [r \in Reqs |-> "none"]
    /\ resp = [r \in Reqs |-> 0]
    /\ events = <<>>
    /\ written = NoWrite
    /\ call = NoCall
    /\ clients = WsClients
    /\ released = [r \in Reqs |-> 0]
    /\ users = NoTotp
    /\ twoFA = [a \in AuthReqs |-> NoAuthReq]
    /\ db = EmptyDb
    /\ conns = [c \in Conns |-> NoConn]
    /\ state = {}

\* ------------------------------------------------------------- the clock
Tick ==
    /\ now < MaxNow
    /\ now' = now + 1
    /\ UNCHANGED <<rows, nextId, pending, pc, req, attempts, nextSeq, seqDate,
                   orderNo, insertId, affected, seen, err, resp, events, aborted, released>>
    /\ UNCHANGED <<users, twoFA, db, conns, state>>
    /\ UNCHANGED <<written, call, clients>>

\* ------------------------------------------------- POST /api/current-orders
\* validation, orderNo, coercions, deriveOrderSeqDate, pool.getConnection()
CreateStart(r) ==
    /\ CanStart(r)
    /\ \E c \in CallerTenants(r), b \in OrderInputs, f \in BodyFieldInputs :
          /\ Validate(f) = 0
          /\ req' = [req EXCEPT ![r] = [kind |-> "create", companyId |-> c, id |-> 0,
                                         orderType |-> b.orderType,
                                         scheduledAt |-> b.scheduledAt,
                                         status |-> "new",
                                         fields |-> f]]
          /\ seqDate' = [seqDate EXCEPT ![r] =
                             deriveOrderSeqDate(b.orderType, b.scheduledAt)]
    /\ orderNo' = [orderNo EXCEPT ![r] = now]
    /\ attempts' = [attempts EXCEPT ![r] = 0]
    /\ pc' = [pc EXCEPT ![r] = "begin"]
    /\ UNCHANGED <<now, rows, nextId, pending, nextSeq, insertId, affected, seen,
                   err, resp, events, aborted, released>>
    /\ UNCHANGED <<users, twoFA, db, conns, state>>
    /\ UNCHANGED <<written, call, clients>>

\* POST /api/current-orders with a required field missing: answered 400 by
\* the validation, which runs before pool.getConnection()
CreateInvalid(r) ==
    /\ pc[r] = "idle"
    /\ IF r = 1 THEN TRUE ELSE pc[r - 1] # "idle"
    /\ \E c \in CallerTenants(r), f \in BodyFieldInputs :
          /\ Validate(f) # 0
          /\ req' = [req EXCEPT ![r] = [NoReq EXCEPT !.kind = "create",
                                                     !.companyId = c, !.fields = f]]
          /\ resp' = [resp EXCEPT ![r] = Validate(f)]
    /\ pc' = [pc EXCEPT ![r] = "done"]
    /\ UNCHANGED <<now, rows, nextId, pending, attempts, nextSeq, seqDate, orderNo,
                   insertId, affected, seen, aborted, err, events>>
    /\ UNCHANGED <<users, twoFA, db, conns, state>>
    /\ UNCHANGED <<written, call, clients, released>>

\* mutant of BeginAlloc: the operational day is derived anew in each attempt
BeginAllocRederive(r) ==
    /\ pc[r] = "begin"
    /\ attempts' = [attempts EXCEPT ![r] = attempts[r] + 1]
    /\ seqDate' = [seqDate EXCEPT ![r] =
                      deriveOrderSeqDate(req[r].orderType, req[r].scheduledAt)]
    /\ nextSeq' = [nextSeq EXCEPT ![r] =
                      allocateDailySeq(r, req[r].companyId, seqDate'[r])]
    /\ seen' = [seen EXCEPT ![r] =
                   {o.order_id : o \in {x \in rows :
                       x.company_id = req[r].companyId /\ x.order_seq_date = seqDate'[r]}}]
    /\ pc' = [pc EXCEPT ![r] = "insert"]
    /\ UNCHANGED <<now, rows, nextId, pending, req, orderNo, insertId,
                   affected, err, resp, events, aborted, released>>
    /\ UNCHANGED <<users, twoFA, db, conns, state>>
    /\ UNCHANGED <<written, call, clients>>

\* attempts++; await conn.beginTransaction();
\* const nextSeq = await allocateDailySeq(conn, companyId, order_seq_date)
\* (beginTransaction touches nothing another request can see: it is taken
\* together with the locking read that follows it)
BeginAlloc(r) ==
    /\ pc[r] = "begin"
    /\ attempts' = [attempts EXCEPT ![r] = attempts[r] + 1]
    /\ nextSeq' = [nextSeq EXCEPT ![r] =
                      allocateDailySeq(r, req[r].companyId, seqDate[r])]
    /\ seen' = [seen EXCEPT ![r] =
                   {o.order_id : o \in {x \in rows :
                       x.company_id = req[r].companyId /\ x.order_seq_date = seqDate[r]}}]
    /\ pc' = [pc EXCEPT ![r] = "insert"]
    /\ UNCHANGED <<now, rows, nextId, pending, req, seqDate, orderNo, insertId,
                   affected, err, resp, events, aborted, released>>
    /\ UNCHANGED <<users, twoFA, db, conns, state>>
    /\ UNCHANGED <<written, call, clients>>

\* mutant of Caught: a sequence conflict is retried however many attempts
\* were made
CaughtUnbounded(r, e) ==
    /\ err' = [err EXCEPT ![r] = e]
    /\ pending' = [pending EXCEPT ![r] = {}]
    /\ aborted' = IF e = "ER_DUP_ENTRY" THEN aborted
                  ELSE aborted \cup {[company_id |-> req[r].companyId,
                                       order_seq_date |-> seqDate[r],
                                       order_seq |-> nextSeq[r]]}
    /\ IF e = "ER_DUP_ENTRY"
       THEN /\ pc' = [pc EXCEPT ![r] = "begin"]
            /\ UNCHANGED <<resp, req, attempts, nextSeq, seqDate, orderNo, seen, released>>
       ELSE Exit(r, 500)

\* mutant of Caught: no rollback, the rows of the transaction stay pending
CaughtNoRollback(r, e) ==
    /\ err' = [err EXCEPT ![r] = e]
    /\ pending' = pending
    /\ aborted' = IF e = "ER_DUP_ENTRY" THEN aborted
                  ELSE aborted \cup {[company_id |-> req[r].companyId,
                                       order_seq_date |-> seqDate[r],
                                       order_seq |-> nextSeq[r]]}
    /\ IF e = "ER_DUP_ENTRY" /\ attempts[r] < MaxAttempts
       THEN /\ pc' = [pc EXCEPT ![r] = "begin"]
            /\ UNCHANGED <<resp, req, attempts, nextSeq, seqDate, orderNo, seen, released>>
       ELSE Exit(r, 500)

\* mutant of Caught: every error is retried while attempts are left
CaughtRetryAny(r, e) ==
    /\ err' = [err EXCEPT ![r] = e]
    /\ pending' = [pending EXCEPT ![r] = {}]
    /\ aborted' = IF e = "ER_DUP_ENTRY" THEN aborted
                  ELSE aborted \cup {[company_id |-> req[r].companyId,
                                       order_seq_date |-> seqDate[r],
                                       order_seq |-> nextSeq[r]]}
    /\ IF attempts[r] < MaxAttempts
       THEN /\ pc' = [pc EXCEPT ![r] = "begin"]
            /\ UNCHANGED <<resp, req, attempts, nextSeq, seqDate, orderNo, seen, released>>
       ELSE Exit(r, 500)

\* catch (e): await conn.rollback(); on ER_DUP_ENTRY with attempts < 5 sleep
\* and continue the loop, otherwise throw to the outer catch, which answers 500
Caught(r, e) ==
    /\ err' = [err EXCEPT ![r] = e]
    /\ pending' = [pending EXCEPT ![r] = {}]
    /\ aborted' = IF e = "ER_DUP_ENTRY" THEN aborted
                  ELSE aborted \cup {[company_id |-> req[r].companyId,
                                       order_seq_date |-> seqDate[r],
                                       order_seq |-> nextSeq[r]]}
    /\ IF e = "ER_DUP_ENTRY" /\ attempts[r] < MaxAttempts
       THEN /\ pc' = [pc EXCEPT ![r] = "begin"]
            /\ UNCHANGED <<resp, req, attempts, nextSeq, seqDate, orderNo, seen, released>>
       ELSE Exit(r, 500)

\* await conn.query(INSERT INTO current_orders ...): the row, or ER_DUP_ENTRY
Insert(r) ==
    /\ pc[r] = "insert"
    /\ ~KeyHeld(r, req[r].companyId, seqDate[r], nextSeq[r])
    /\ nextId' = nextId + 1
    /\ IF DupEntry(req[r].companyId, seqDate[r], nextSeq[r])
       THEN Caught(r, "ER_DUP_ENTRY")
       ELSE /\ pending' = [pending EXCEPT ![r] =
                  {[order_id |-> nextId, company_id |-> req[r].companyId,
                    order_seq |-> nextSeq[r], order_seq_date |-> seqDate[r],
                    order_type |-> req[r].orderType, status |-> req[r].status,
                    scheduled_at |-> req[r].scheduledAt]}]
            /\ pc' = [pc EXCEPT ![r] = "commit"]
            /\ UNCHANGED <<err, resp, req, attempts, nextSeq, seqDate, orderNo, seen,
                           aborted, released>>
    /\ UNCHANGED <<now, rows, insertId, affected, events>>
    /\ UNCHANGED <<users, twoFA, db, conns, state>>
    /\ UNCHANGED <<written, call, clients>>

\* await conn.commit(); result = ins
Commit(r) ==
    /\ pc[r] = "commit"
    /\ rows' = rows \cup pending[r]
    /\ insertId' = [insertId EXCEPT ![r] = (CHOOSE o \in pending[r] : TRUE).order_id]
    /\ pending' = [pending EXCEPT ![r] = {}]
    /\ pc' = [pc EXCEPT ![r] = "reread"]
    /\ UNCHANGED <<now, nextId, req, attempts, nextSeq, seqDate, orderNo, affected,
                   seen, err, resp, events, aborted, released>>
    /\ UNCHANGED <<users, twoFA, db, conns, state>>
    /\ UNCHANGED <<written, call, clients>>

\* a statement of the transaction throws something other than ER_DUP_ENTRY:
\* after the allocation (the INSERT fails) or at the COMMIT
TxFail(r) ==
    /\ pc[r] \in {"insert", "commit"}
    /\ Caught(r, "ER_OTHER")
    /\ UNCHANGED <<now, rows, nextId, insertId, affected, events>>
    /\ UNCHANGED <<users, twoFA, db, conns, state>>
    /\ UNCHANGED <<written, call, clients>>

\* mutant of CreateFinish: the re-read, the answer and the broadcast run on the
\* transaction's connection before conn.commit()
CreateFinishUncommitted(r) ==
    /\ pc[r] = "commit"
    /\ req[r].kind = "create"
    /\ \E out \in PublishOutcomes :
          /\ events' = Append(events,
                Sent([type |-> "order_created", eventId |-> randomUUID, ts |-> now,
                      companyId |-> req[r].companyId,
                      order |-> rowToPanelDto(CHOOSE o \in pending[r] : TRUE),
                      req |-> r], out))
          /\ Exit(r, Answered(200, out))
    /\ UNCHANGED <<now, rows, nextId, pending, insertId, affected, aborted, err>>
    /\ UNCHANGED <<users, twoFA, db, conns, state>>
    /\ UNCHANGED <<written, call, clients>>

\* the re-read after commit, res.json({ok: true, item}), broadcastToAdmins
CreateFinish(r) ==
    /\ pc[r] = "reread"
    /\ req[r].kind = "create"
    /\ LET found == SelectOrder(req[r].companyId, insertId[r])
       IN  IF found = {}      \* rowToPanelDto(undefined) throws: the catch answers 500
           THEN /\ Exit(r, 500)
                /\ UNCHANGED events
           ELSE \E out \in PublishOutcomes :
                /\ events' = Append(events,
                      Sent([type |-> "order_created", eventId |-> randomUUID, ts |-> now,
                      companyId |-> req[r].companyId,
                            order |-> rowToPanelDto(CHOOSE o \in found : TRUE),
                            req |-> r], out))
                /\ Exit(r, Answered(200, out))
    /\ UNCHANGED <<now, rows, nextId, pending, insertId, affected, err, aborted>>
    /\ UNCHANGED <<users, twoFA, db, conns, state>>
    /\ UNCHANGED <<written, call, clients>>

\* the re-read (pool.query) throws: the outer catch answers 500
\* the re-read SELECT after the commit or the UPDATE throws: the handler's
\* catch answers 500, and broadcastToAdmins is not reached
RereadFail(r) ==
    /\ pc[r] = "reread"
    /\ err' = [err EXCEPT ![r] = "ER_OTHER"]
    /\ Exit(r, 500)
    /\ UNCHANGED <<now, rows, nextId, pending, insertId, affected, events, aborted>>
    /\ UNCHANGED <<users, twoFA, db, conns, state>>
    /\ UNCHANGED <<written, call, clients>>

\* ---------------------------------------------- PUT /api/current-orders/:id
\* an uncommitted row of an open transaction is locked: the UPDATE waits
RowLocked(id) == \E q \in Reqs : \E o \in pending[q] : o.order_id = id

\* mutant of PutRow: the update derives the operational day again
PutRowRederive(o, b) ==
    [o EXCEPT !.order_type = b.orderType, !.status = b.status,
              !.scheduled_at = b.scheduledAt,
              !.order_seq_date = deriveOrderSeqDate(b.orderType, b.scheduledAt)]

\* UPDATE current_orders SET order_type=?, status=?, scheduled_at=?, ...
\*  WHERE company_id=? AND order_id=?     (order_seq, order_seq_date not set)
PutRow(o, b) ==
    [o EXCEPT !.order_type = b.orderType, !.status = b.status,
              !.scheduled_at = b.scheduledAt]

\* mutant of PatchRow: the statement also writes the order type of the body
PatchRowWithType(o, b) == [o EXCEPT !.status = b.status, !.order_type = b.orderType]

\* UPDATE current_orders SET status=?, updated_at=NOW() WHERE ...
PatchRow(o, b) == [o EXCEPT !.status = b.status]

\* mutant of Matches: the company_id condition is left out of the WHERE
MatchesAnyTenant(o, companyId, id) == o.order_id = id

\* WHERE company_id=? AND order_id=? of the two UPDATE statements
Matches(o, companyId, id) == o.company_id = companyId /\ o.order_id = id

\* await pool.query(UPDATE ...) of the PUT handler (autocommit)
PutUpdate(r) ==
    /\ CanStart(r)
    /\ \E c \in CallerTenants(r), id \in 1..nextId, b \in OrderInputs,
          st \in PutStatusInputs :
          /\ ~RowLocked(id)
          /\ req' = [req EXCEPT ![r] = [kind |-> "put", companyId |-> c, id |-> id,
                                         orderType |-> b.orderType,
                                         scheduledAt |-> b.scheduledAt,
                                         status |-> st,
                                         fields |-> RequiredFields]]
          /\ rows' = {IF Matches(o, c, id) THEN PutRow(o, req'[r]) ELSE o : o \in rows}
          /\ affected' = [affected EXCEPT ![r] =
                             Cardinality({o \in rows : Matches(o, c, id)})]
    /\ pc' = [pc EXCEPT ![r] = "reread"]
    /\ UNCHANGED <<now, nextId, pending, attempts, nextSeq, seqDate, orderNo,
                   insertId, seen, err, resp, events, aborted, released>>
    /\ UNCHANGED <<users, twoFA, db, conns, state>>
    /\ UNCHANGED <<written, call, clients>>

\* mutant of PutFinish: the check of rows.length is left out, as in the PATCH
\* handler
PutFinishNo404(r) ==
    /\ pc[r] = "reread"
    /\ req[r].kind = "put"
    /\ LET found == SelectOrder(req[r].companyId, req[r].id)
       IN  IF found = {}
           THEN /\ Exit(r, 200)
                /\ UNCHANGED events
           ELSE \E out \in PublishOutcomes :
                /\ events' = Append(events,
                      Sent([type |-> "order_updated", companyId |-> req[r].companyId,
                            order |-> rowToPanelDto(CHOOSE o \in found : TRUE),
                            req |-> r], out))
                /\ Exit(r, Answered(200, out))
    /\ UNCHANGED <<now, rows, nextId, pending, insertId, affected, err, aborted>>
    /\ UNCHANGED <<users, twoFA, db, conns, state>>
    /\ UNCHANGED <<written, call, clients>>

\* the re-read, 404 or res.json({ok: true, item}) and broadcastToAdmins
PutFinish(r) ==
    /\ pc[r] = "reread"
    /\ req[r].kind = "put"
    /\ LET found == SelectOrder(req[r].companyId, req[r].id)
       IN  IF found = {}
           THEN /\ Exit(r, 404)
                /\ UNCHANGED events
           ELSE \E out \in PublishOutcomes :
                /\ events' = Append(events,
                      Sent([type |-> "order_updated", companyId |-> req[r].companyId,
                            order |-> rowToPanelDto(CHOOSE o \in found : TRUE),
                            req |-> r], out))
                /\ Exit(r, Answered(200, out))
    /\ UNCHANGED <<now, rows, nextId, pending, insertId, affected, err, aborted>>
    /\ UNCHANGED <<users, twoFA, db, conns, state>>
    /\ UNCHANGED <<written, call, clients>>

\* ------------------------------------- PATCH /api/current-orders/:id/status
PatchUpdate(r) ==
    /\ CanStart(r)
    /\ \E c \in CallerTenants(r), id \in 1..nextId, st \in StatusInputs :
          /\ ~RowLocked(id)
          /\ req' = [req EXCEPT ![r] = [NoReq EXCEPT !.kind = "patch", !.companyId = c,
                                                    !.id = id, !.status = st]]
          /\ rows' = {IF Matches(o, c, id) THEN PatchRow(o, req'[r]) ELSE o : o \in rows}
          /\ affected' = [affected EXCEPT ![r] =
                             Cardinality({o \in rows : Matches(o, c, id)})]
    /\ pc' = [pc EXCEPT ![r] = "reread"]
    /\ UNCHANGED <<now, nextId, pending, attempts, nextSeq, seqDate, orderNo,
                   insertId, seen, err, resp, events, aborted, released>>
    /\ UNCHANGED <<users, twoFA, db, conns, state>>
    /\ UNCHANGED <<written, call, clients>>

\* mutant of PatchFinish: a row that is not there is answered 404, as PUT does
PatchFinishNotFound404(r) ==
    /\ pc[r] = "reread"
    /\ req[r].kind = "patch"
    /\ LET found == SelectOrder(req[r].companyId, req[r].id)
       IN  IF found = {}
           THEN /\ Exit(r, 404)
                /\ UNCHANGED events
           ELSE \E out \in PublishOutcomes :
                /\ events' = Append(events,
                      Sent([type |-> "order_updated", companyId |-> req[r].companyId,
                            order |-> rowToPanelDto(CHOOSE o \in found : TRUE),
                            req |-> r], out))
                /\ Exit(r, Answered(200, out))
    /\ UNCHANGED <<now, rows, nextId, pending, insertId, affected, err, aborted>>
    /\ UNCHANGED <<users, twoFA, db, conns, state>>
    /\ UNCHANGED <<written, call, clients>>

\* the re-read, res.json({ok: true}) and broadcastToAdmins when the row is there
PatchFinish(r) ==
    /\ pc[r] = "reread"
    /\ req[r].kind = "patch"
    /\ LET found == SelectOrder(req[r].companyId, req[r].id)
       IN  IF found = {}
           THEN /\ Exit(r, 200)
                /\ UNCHANGED events
           ELSE \E out \in PublishOutcomes :
                /\ events' = Append(events,
                      Sent([type |-> "order_updated", companyId |-> req[r].companyId,
                            order |-> rowToPanelDto(CHOOSE o \in found : TRUE),
                            req |-> r], out))
                /\ Exit(r, Answered(200, out))
    /\ UNCHANGED <<now, rows, nextId, pending, insertId, affected, err, aborted>>
    /\ UNCHANGED <<users, twoFA, db, conns, state>>
    /\ UNCHANGED <<written, call, clients>>

\* the UPDATE of a PUT or PATCH handler throws: the catch answers 500
\* the UPDATE of a PUT or a PATCH throws: catch answers 500, nothing changed
UpdateFail(r) ==
    /\ CanStart(r)
    /\ \E k \in {"put", "patch"}, c \in CallerTenants(r) :
          req' = [req EXCEPT ![r] = [NoReq EXCEPT !.kind = k, !.companyId = c]]
    /\ pc' = [pc EXCEPT ![r] = "done"]
    /\ resp' = [resp EXCEPT ![r] = 500]
    /\ err' = [err EXCEPT ![r] = "ER_OTHER"]
    /\ UNCHANGED <<now, rows, nextId, pending, attempts, nextSeq, seqDate, orderNo,
                   insertId, affected, seen, events, aborted>>
    /\ UNCHANGED <<users, twoFA, db, conns, state>>
    /\ UNCHANGED <<written, call, clients, released>>

Next ==
    \/ Tick
    \/ \E r \in Reqs : CreateStart(r)
    \/ \E r \in Reqs : CreateInvalid(r)
    \/ \E r \in Reqs : BeginAlloc(r)
    \/ \E r \in Reqs : Insert(r)
    \/ \E r \in Reqs : Commit(r)
    \/ \E r \in Reqs : TxFail(r)
    \/ \E r \in Reqs : CreateFinish(r)
    \/ \E r \in Reqs : RereadFail(r)
    \/ \E r \in Reqs : PutUpdate(r)
    \/ \E r \in Reqs : PutFinish(r)
    \/ \E r \in Reqs : PatchUpdate(r)
    \/ \E r \in Reqs : PatchFinish(r)
    \/ \E r \in Reqs : UpdateFail(r)

Spec == Init /\ [][Next]_vars

\* ------------------------------------------------- a create under contention
\* A state the server is in after request 1, an active order of tenant 1 on
\* day 0, has lost three races for a number to creates of earlier requests:
\* their rows hold 1, 2 and 3, each lost INSERT has used up an order_id, and
\* request 1 is about to open its fourth transaction.  The broadcast log is
\* kept from this state on.
ContendedRows ==
    {[order_id |-> 2 * k - 1, company_id |-> 1, order_seq |-> k, order_seq_date |-> 0,
      order_type |-> "active", status |-> "new", scheduled_at |-> NullTs] : k \in 1..3}

InitContention ==
    /\ now = 0
    /\ rows = ContendedRows
    /\ nextId = 7
    /\ pending = [r \in Reqs |-> {}]
    /\ pc = [r \in Reqs |-> IF r = 1 THEN "begin" ELSE "idle"]
    /\ req = [r \in Reqs |-> IF r = 1
                             THEN [NoReq EXCEPT !.kind = "create", !.companyId = 1]
                             ELSE NoReq]
    /\ attempts = [r \in Reqs |-> IF r = 1 THEN 3 ELSE 0]
    /\ nextSeq = [r \in Reqs |-> IF r = 1 THEN 3 ELSE 0]
    /\ seqDate = [r \in Reqs |-> 0]
    /\ orderNo = [r \in Reqs |-> 0]
    /\ insertId = [r \in Reqs |-> 0]
    /\ affected = [r \in Reqs |-> 0]
    /\ seen = [r \in Reqs |-> IF r = 1 THEN {1, 3} ELSE {}]
    /\ aborted = {}
    /\ err = [r \in Reqs |-> IF r = 1 THEN "ER_DUP_ENTRY" ELSE "none"]
    /\ resp = [r \in Reqs |-> 0]
    /\ events = <<>>
    /\ written = NoWrite
    /\ call = NoCall
    /\ clients = WsClients
    /\ released = [r \in Reqs |-> 0]
    /\ users = NoTotp
    /\ twoFA = [a \in AuthReqs |-> NoAuthReq]
    /\ db = EmptyDb
    /\ conns = [c \in Conns |-> NoConn]
    /\ state = {}

SpecContention == InitContention /\ [][Next]_vars


\* ------------------------------------------------------- the amount columns
\* Money is counted in hundredths, the unit toFixed(2) rounds to; discount is
\* a percentage.  The item values are chosen so that no product falls exactly
\* between two hundredths, where the rounding of toFixed depends on the
\* binary representation of the number.
ItemInputs == [price : {199, 1099}, discount : {0, 15}, quantity : {1, 3}]
ItemLists == UNION {[1..n -> ItemInputs] : n \in 0..MaxItems}
\* amount_total (with amount_subtotal, amount_discount) as a caller may put
\* it into the body; 0: the body has no such fields
SuppliedTotals == {0, 1}

\* +(num / den).toFixed(2) of a non-negative amount of num / den hundredths
ToFixed2(num, den) == (2 * num + den) \div (2 * den)

\* norm.reduce((s, r) => s + ..., 0)
RECURSIVE reduce(_)
reduce(terms) == IF terms = <<>> THEN 0 ELSE Head(terms) + reduce(Tail(terms))

\* normalizeItemsAndAmounts(items)
normalizeItemsAndAmounts(items) ==
    LET norm == [i \in 1..Len(items) |->
                    LET final_price == ToFixed2(items[i].price * (100 - items[i].discount), 100)
                        line_total  == ToFixed2(final_price * items[i].quantity, 1)
                    IN  [price |-> items[i].price, discount |-> items[i].discount,
                         final_price |-> final_price, quantity |-> items[i].quantity,
                         line_total |-> line_total]]
        subtotal == ToFixed2(reduce([i \in 1..Len(norm) |->
                                        norm[i].price * norm[i].quantity]), 1)
        total    == ToFixed2(reduce([i \in 1..Len(norm) |-> norm[i].line_total]), 1)
        discount == ToFixed2(subtotal - total, 1)
    IN  [items |-> norm, amount_subtotal |-> subtotal,
         amount_discount |-> discount, amount_total |-> total]

\* mutant of StoredAmounts: amounts the body carries are taken over
StoredAmountsSupplied(kind, b) ==
    LET n == normalizeItemsAndAmounts(b.selectedItems)
    IN  [kind |-> kind, selectedItems |-> b.selectedItems, supplied |-> b.amount_total,
         amount_subtotal |-> IF b.amount_total # 0 THEN b.amount_subtotal ELSE n.amount_subtotal,
         amount_discount |-> IF b.amount_total # 0 THEN b.amount_discount ELSE n.amount_discount,
         amount_total    |-> IF b.amount_total # 0 THEN b.amount_total ELSE n.amount_total]

\* the amount columns the INSERT of POST and the UPDATE of PUT write for a
\* body: those of normalizeItemsAndAmounts(b.selectedItems || [])
StoredAmounts(kind, b) ==
    LET n == normalizeItemsAndAmounts(b.selectedItems)
    IN  [kind |-> kind, selectedItems |-> b.selectedItems, supplied |-> b.amount_total,
         amount_subtotal |-> n.amount_subtotal,
         amount_discount |-> n.amount_discount,
         amount_total    |-> n.amount_total]

\* a body with its item list and the amounts the caller put into it
Body(items, t) ==
    [selectedItems |-> items, amount_subtotal |-> t, amount_discount |-> 0,
     amount_total |-> t]

\* POST /api/current-orders: the amounts of the row inserted
PostAmounts ==
    /\ written.kind = "none"
    /\ \E items \in ItemLists, t \in SuppliedTotals :
          written' = StoredAmounts("post", Body(items, t))
    /\ UNCHANGED <<users, twoFA, db, conns, state>>
    /\ UNCHANGED <<now, rows, nextId, pending, pc, req, attempts, nextSeq, seqDate,
                   orderNo, insertId, affected, seen, aborted, err, resp, events,
                   call, clients, released>>

\* PUT /api/current-orders/:id: the amounts of the row updated
PutAmounts ==
    /\ written.kind # "none"
    /\ \E items \in ItemLists, t \in SuppliedTotals :
          written' = StoredAmounts("put", Body(items, t))
    /\ UNCHANGED <<users, twoFA, db, conns, state>>
    /\ UNCHANGED <<now, rows, nextId, pending, pc, req, attempts, nextSeq, seqDate,
                   orderNo, insertId, affected, seen, aborted, err, resp, events,
                   call, clients, released>>

NextTotals == PostAmounts \/ PutAmounts

SpecTotals == Init /\ [][NextTotals]_vars


\* ------------------------------------------------ deriveOrderSeqDate alone
\* every order type with every scheduledAt, absent or an instant of the clock
DeriveInputs == [orderType : OrderTypes, scheduledAt : Instants \cup {NullTs}]

\* a call deriveOrderSeqDate(orderType, scheduledAt) at the present instant;
\* the arguments are kept in req, the instant in orderNo, the result in seqDate
Derive(r) ==
    /\ pc[r] = "idle"
    /\ IF r = 1 THEN TRUE ELSE pc[r - 1] # "idle"
    /\ \E b \in DeriveInputs :
          /\ req' = [req EXCEPT ![r] = [NoReq EXCEPT !.kind = "derive",
                                                    !.orderType = b.orderType,
                                                    !.scheduledAt = b.scheduledAt]]
          /\ seqDate' = [seqDate EXCEPT ![r] =
                            deriveOrderSeqDate(b.orderType, b.scheduledAt)]
    /\ orderNo' = [orderNo EXCEPT ![r] = now]
    /\ pc' = [pc EXCEPT ![r] = "done"]
    /\ UNCHANGED <<users, twoFA, db, conns, state>>
    /\ UNCHANGED <<now, rows, nextId, pending, attempts, nextSeq, insertId, affected,
                   seen, aborted, err, resp, events, written, call, clients, released>>

NextDerive ==
    \/ Tick
    \/ \E r \in Reqs : Derive(r)

SpecDerive == Init /\ [][NextDerive]_vars

\* ---------------------------------------------- coercePaymentMethod alone
\* A string is a sequence of characters. A character is a letter of the Latin
\* or of the Cyrillic alphabet (named by its transliteration) in one of its
\* two cases, or a sign without case such as a blank or a tab.
Lat(w) == [i \in 1..Len(w) |-> [l |-> w[i], script |-> "latin", up |-> FALSE]]
Cyr(w) == [i \in 1..Len(w) |-> [l |-> w[i], script |-> "cyrillic", up |-> FALSE]]
Blank == Lat(<<" ">>)
Tab == Lat(<<"tab">>)
Caseless == {" ", "tab", "[", "]", "=", "2", "3", "4", "5", "6", "7"}

\* String.prototype.toUpperCase, toLowerCase
toUpperCase(s) == [i \in 1..Len(s) |-> [s[i] EXCEPT !.up = s[i].l \notin Caseless]]
toLowerCase(s) == [i \in 1..Len(s) |-> [s[i] EXCEPT !.up = FALSE]]
Capitalize(s) == IF s = <<>> THEN s ELSE toUpperCase(<<Head(s)>>) \o Tail(s)

\* String.prototype.trim: the white space at both ends is dropped
IsSpace(c) == c.l \in {" ", "tab"}
RECURSIVE trimStart(_)
trimStart(s) == IF s # <<>> /\ IsSpace(Head(s)) THEN trimStart(Tail(s)) ELSE s
RECURSIVE trimEnd(_)
trimEnd(s) ==
    IF s # <<>> /\ IsSpace(s[Len(s)]) THEN trimEnd(SubSeq(s, 1, Len(s) - 1)) ELSE s
trim(s) == trimEnd(trimStart(s))

\* the values a JSON body can carry in b.payment
Str(s) == [type |-> "string", s |-> s]
Falsy(v) ==
    \/ v.type \in {"null", "undefined"}
    \/ v.type = "number" /\ v.n = 0
    \/ v.type = "boolean" /\ ~v.b
    \/ v.type = "string" /\ v.s = <<>>
\* String(v)
String(v) ==
    CASE v.type = "string"  -> v.s
      [] v.type = "number"  -> Lat(<<"5">>)
      [] v.type = "boolean" -> Lat(<<"t", "r", "u", "e">>)
      [] v.type = "array"   -> <<>>
      [] v.type = "object"  ->
            Lat(<<"[", "o", "b", "j", "e", "c", "t", " ">>)
            \o Capitalize(Lat(<<"o", "b", "j", "e", "c", "t">>)) \o Lat(<<"]">>)
      [] OTHER -> Lat(<<"n", "u", "l", "l">>)

\* the ENUM of current_orders.payment_method
PaymentMethods == {"cash", "card", "wire"}
\* the words each value is recognised by
Synonyms ==
    [cash |-> {Lat(<<"c", "a", "s", "h">>),
               Cyr(<<"n", "a", "l", "i", "ch", "n", "y", "e">>),
               Cyr(<<"n", "a", "l">>)},
     card |-> {Lat(<<"c", "a", "r", "d">>),
               Cyr(<<"k", "a", "r", "t", "a">>),
               Cyr(<<"b", "a", "n", "k", "o", "v", "s", "k", "a", "ya">>) \o Blank
                   \o Cyr(<<"k", "a", "r", "t", "a">>)},
     wire |-> {Lat(<<"w", "i", "r", "e">>),
               Cyr(<<"p", "e", "r", "e", "ch", "i", "s", "l", "e", "n", "i", "e", "m">>),
               Cyr(<<"b", "e", "z", "n", "a", "l">>),
               Cyr(<<"b", "e", "z", "n", "a", "l", "i", "ch", "n", "y", "j">>)}]

\* mutant of coercePaymentMethod: the value is not trimmed
coercePaymentMethodNoTrim(val) ==
    LET s == toLowerCase(String(IF Falsy(val) THEN Str(<<>>) ELSE val))
    IN  IF s \in Synonyms.cash THEN "cash"
        ELSE IF s \in Synonyms.card THEN "card"
        ELSE IF s \in Synonyms.wire THEN "wire"
        ELSE "cash"

\* function coercePaymentMethod(val)
\*   const s = String(val || "").trim().toLowerCase();
coercePaymentMethod(val) ==
    LET s == toLowerCase(trim(String(IF Falsy(val) THEN Str(<<>>) ELSE val)))
    IN  IF s \in Synonyms.cash THEN "cash"
        ELSE IF s \in Synonyms.card THEN "card"
        ELSE IF s \in Synonyms.wire THEN "wire"
        ELSE "cash"

\* words no value is recognised by: the empty one, a card scheme, a plural,
\* cash with a blank inside, cash spelt with the Cyrillic letter that looks
\* like c, and the two words of a synonym in the other order
OtherWords ==
    {<<>>,
     Lat(<<"v", "i", "s", "a">>),
     Lat(<<"c", "a", "r", "d", "s">>),
     Lat(<<"c", "a">>) \o Blank \o Lat(<<"s", "h">>),
     Cyr(<<"s">>) \o Lat(<<"a", "s", "h">>),
     Cyr(<<"k", "a", "r", "t", "a">>) \o Blank
         \o Cyr(<<"b", "a", "n", "k", "o", "v", "s", "k", "a", "ya">>)}
PaymentWords == Synonyms.cash \cup Synonyms.card \cup Synonyms.wire \cup OtherWords
Spellings(w) == {w, toUpperCase(w), Capitalize(w)}
Margins == {<<>>, Blank, Tab \o Blank}

\* b.payment as a client can send it, with the word it was spelt from
PaymentInputs ==
    UNION {{[val |-> Str(t[1] \o spelt \o t[2]), word |-> w] :
                t \in Margins \X Margins, spelt \in Spellings(w)} : w \in PaymentWords}
    \cup {[val |-> v, word |-> toLowerCase(String(v))] :
            v \in {[type |-> "number", n |-> 5], [type |-> "boolean", b |-> TRUE],
                   [type |-> "object"]}}
    \cup {[val |-> v, word |-> <<>>] :
            v \in {[type |-> "null"], [type |-> "undefined"],
                   [type |-> "number", n |-> 0], [type |-> "boolean", b |-> FALSE],
                   [type |-> "array"]}}

\* const payment_method = coercePaymentMethod(b.payment) of POST and PUT
CoercePayment ==
    /\ \E b \in PaymentInputs :
          call' = [fn |-> "coercePaymentMethod", arg |-> b.val, word |-> b.word,
                   result |-> coercePaymentMethod(b.val)]
    /\ UNCHANGED <<users, twoFA, db, conns, state>>
    /\ UNCHANGED <<now, rows, nextId, pending, pc, req, attempts, nextSeq, seqDate,
                   orderNo, insertId, affected, seen, aborted, err, resp, events,
                   written, clients, released>>

NextPayment == CoercePayment

SpecPayment == Init /\ [][NextPayment]_vars


\* ------------------------------------------- GET /api/current-orders alone
\* The list is a query: it is applied to tables of up to MaxRows orders, each
\* with the created_at its INSERT gave it.  Orders of one instant occur, and
\* orders whose ids and instants run in opposite directions.
ListStatuses == {"new", "cancelled"}
ListedRow(id, c, b, st, at) ==
    [order_id |-> id, company_id |-> c, order_seq |-> id, order_seq_date |-> 0,
     order_type |-> b.orderType, status |-> st, scheduled_at |-> b.scheduledAt,
     created_at |-> at]
ListedRows(id) ==
    {ListedRow(id, c, b, st, at) :
        c \in Tenants, b \in OrderInputs, st \in ListStatuses, at \in Instants}
\* the tables with ids up to n: each id is missing or carried by one order
RECURSIVE TablesUpTo(_)
TablesUpTo(n) ==
    IF n = 0 THEN {{}}
    ELSE LET T == TablesUpTo(n - 1)
         IN  T \cup {t \cup {o} : t \in T, o \in ListedRows(n)}
ListedTables == TablesUpTo(MaxRows)

\* req.query.tab: left out, a word in some spelling, or given twice (an array)
TabWords == {Lat(<<"a", "c", "t", "i", "v", "e">>),
             Lat(<<"p", "r", "e", "o", "r", "d", "e", "r", "s">>),
             Lat(<<"a", "l", "l">>),
             Lat(<<"d", "o", "n", "e">>)}
TabInputs ==
    {Str(w) : w \in TabWords}
    \cup {Str(toUpperCase(Lat(<<"a", "c", "t", "i", "v", "e">>))),
          Str(Capitalize(Lat(<<"p", "r", "e", "o", "r", "d", "e", "r", "s">>))),
          [type |-> "undefined"], [type |-> "array"]}

\* mutant of ListWhere: the company_id condition is left out
ListWhereAnyTenant(o, companyId, tab) ==
    /\ tab = Lat(<<"a", "c", "t", "i", "v", "e">>) =>
          /\ o.order_type = "active"
          /\ o.status \in {"new", "ready", "enroute", "paused"}
    /\ tab = Lat(<<"p", "r", "e", "o", "r", "d", "e", "r", "s">>) =>
          o.order_type = "preorder"

\* WHERE co.company_id=? [AND co.order_type='active' AND co.status IN (...)]
\*                       [AND co.order_type='preorder']
ListWhere(o, companyId, tab) ==
    /\ o.company_id = companyId
    /\ tab = Lat(<<"a", "c", "t", "i", "v", "e">>) =>
          /\ o.order_type = "active"
          /\ o.status \in {"new", "ready", "enroute", "paused"}
    /\ tab = Lat(<<"p", "r", "e", "o", "r", "d", "e", "r", "s">>) =>
          o.order_type = "preorder"

\* ORDER BY co.created_at DESC, co.order_id DESC
ListedBefore(o, q) ==
    \/ o.created_at > q.created_at
    \/ o.created_at = q.created_at /\ o.order_id >= q.order_id
RECURSIVE OrderBy(_)
OrderBy(S) ==
    IF S = {} THEN <<>>
    ELSE LET first == CHOOSE o \in S : \A q \in S : ListedBefore(o, q)
         IN  <<first>> \o OrderBy(S \ {first})

\* rowToPanelDto of a listed row: the fields of the model, and createdAt
ListDto(o) ==
    [id |-> o.order_id, orderSeq |-> o.order_seq, orderDay |-> o.order_seq_date,
     orderType |-> o.order_type, status |-> o.status, scheduledAt |-> o.scheduled_at,
     createdAt |-> o.created_at]

\* router.get("/"): tab is lower-cased (an array has no toLowerCase: the catch
\* answers 500), the query is run and the rows are mapped to the answer
ListOrders(companyId, tabQuery) ==
    IF tabQuery.type = "array"
    THEN [status |-> 500, items |-> <<>>]
    ELSE LET tab == toLowerCase(IF Falsy(tabQuery)
                                THEN Lat(<<"a", "c", "t", "i", "v", "e">>)
                                ELSE tabQuery.s)
             sorted == OrderBy({o \in rows : ListWhere(o, companyId, tab)})
         IN  [status |-> 200,
              items |-> [i \in 1..Len(sorted) |-> ListDto(sorted[i])]]

List ==
    /\ \E c \in Tenants, t \in TabInputs :
          call' = [fn |-> "list", companyId |-> c, tab |-> t] @@ ListOrders(c, t)
    /\ UNCHANGED <<users, twoFA, db, conns, state>>
    /\ UNCHANGED <<now, rows, nextId, pending, pc, req, attempts, nextSeq, seqDate,
                   orderNo, insertId, affected, seen, aborted, err, resp, events,
                   written, clients, released>>

InitList ==
    /\ now = MaxNow
    /\ rows \in ListedTables
    /\ nextId = MaxRows + 1
    /\ pending = [r \in Reqs |-> {}]
    /\ pc = [r \in Reqs |-> "idle"]
    /\ req = [r \in Reqs |-> NoReq]
    /\ attempts = [r \in Reqs |-> 0]
    /\ nextSeq = [r \in Reqs |-> 0]
    /\ seqDate = [r \in Reqs |-> 0]
    /\ orderNo = [r \in Reqs |-> 0]
    /\ insertId = [r \in Reqs |-> 0]
    /\ affected = [r \in Reqs |-> 0]
    /\ seen = [r \in Reqs |-> {}]
    /\ aborted = {}
    /\ err = [r \in Reqs |-> "none"]
    /\ resp = [r \in Reqs |-> 0]
    /\ events = <<>>
    /\ written = NoWrite
    /\ call = NoCall
    /\ clients = WsClients
    /\ released = [r \in Reqs |-> 0]
    /\ users = NoTotp
    /\ twoFA = [a \in AuthReqs |-> NoAuthReq]
    /\ db = EmptyDb
    /\ conns = [c \in Conns |-> NoConn]
    /\ state = {}

NextList == List

SpecList == InitList /\ [][NextList]_vars


\* ------------------------------------------------ base32 of server/totp.js
\* The operands of <<, >>> and & are 32-bit words, kept here as their 32
\* bits (bit 0 the lowest); what is shifted out at the top is lost.
Word32 == 0..31
ToWord(n) == [i \in Word32 |-> IF i < 8 THEN (n \div (2^i)) % 2 ELSE 0]
Low8(v) == v[0] + 2*v[1] + 4*v[2] + 8*v[3] + 16*v[4] + 32*v[5] + 64*v[6] + 128*v[7]
Shl(v, k) == [i \in Word32 |-> IF i < k THEN 0 ELSE v[i - k]]
Ushr(v, k) == [i \in Word32 |-> IF i + k > 31 THEN 0 ELSE v[i + k]]
BitOr(v, w) == [i \in Word32 |-> IF v[i] + w[i] > 0 THEN 1 ELSE 0]
BitAnd(v, w) == [i \in Word32 |-> v[i] * w[i]]

\* const BASE32_ALPHABET = "ABCDEFGHIJKLMNOPQRSTUVWXYZ234567"
BASE32_ALPHABET ==
    toUpperCase(Lat(<<"a", "b", "c", "d", "e", "f", "g", "h", "i", "j", "k", "l", "m",
                      "n", "o", "p", "q", "r", "s", "t", "u", "v", "w", "x", "y", "z">>))
    \o Lat(<<"2", "3", "4", "5", "6", "7">>)
\* BASE32_ALPHABET[word], BASE32_ALPHABET.indexOf(char)
CharAt(v) == BASE32_ALPHABET[Low8(v) + 1]
indexOf(c) ==
    IF \E i \in 1..Len(BASE32_ALPHABET) : BASE32_ALPHABET[i] = c
    THEN (CHOOSE i \in 1..Len(BASE32_ALPHABET) : BASE32_ALPHABET[i] = c) - 1
    ELSE -1

\* while (bits >= 5) { output += ALPHABET[(value >>> (bits - 5)) & 31]; bits -= 5 }
RECURSIVE EncodeDrain(_)
EncodeDrain(st) ==
    IF st.bits >= 5
    THEN EncodeDrain([st EXCEPT
            !.output = Append(@, CharAt(BitAnd(Ushr(st.value, st.bits - 5), ToWord(31)))),
            !.bits = @ - 5])
    ELSE st
\* for (let i = 0; i < buffer.length; i++) { value = (value << 8) | buffer[i]; ... }
RECURSIVE EncodeLoop(_, _, _)
EncodeLoop(buffer, i, st) ==
    IF i > Len(buffer) THEN st
    ELSE EncodeLoop(buffer, i + 1,
            EncodeDrain([st EXCEPT !.value = BitOr(Shl(@, 8), ToWord(buffer[i])),
                                   !.bits = @ + 8]))

\* mutant of base32Encode: the bits left after the last byte are not written
base32EncodeNoTail(buffer) ==
    EncodeLoop(buffer, 1, [bits |-> 0, value |-> ToWord(0), output |-> <<>>]).output

\* export function base32Encode(buffer)
base32Encode(buffer) ==
    LET st == EncodeLoop(buffer, 1, [bits |-> 0, value |-> ToWord(0), output |-> <<>>])
    IN  IF st.bits > 0
        THEN Append(st.output, CharAt(BitAnd(Shl(st.value, 5 - st.bits), ToWord(31))))
        ELSE st.output

\* str.replace(/=+$/, "")
RECURSIVE dropPadding(_)
dropPadding(str) ==
    IF str # <<>> /\ str[Len(str)] = Lat(<<"=">>)[1]
    THEN dropPadding(SubSeq(str, 1, Len(str) - 1))
    ELSE str

\* the loop of base32Decode; a character outside the alphabet throws
RECURSIVE DecodeLoop(_, _, _)
DecodeLoop(input, i, st) ==
    IF i > Len(input) \/ st.thrown THEN st
    ELSE IF indexOf(input[i]) = -1 THEN [st EXCEPT !.thrown = TRUE]
    ELSE LET value == BitOr(Shl(st.value, 5), ToWord(indexOf(input[i])))
             bits == st.bits + 5
         IN  DecodeLoop(input, i + 1,
                IF bits >= 8
                THEN [st EXCEPT !.value = value, !.bits = bits - 8,
                                !.output = Append(@, Low8(BitAnd(Ushr(value, bits - 8),
                                                                 ToWord(255))))]
                ELSE [st EXCEPT !.value = value, !.bits = bits])

\* export function base32Decode(str): the bytes, or the error thrown
base32Decode(str) ==
    LET st == DecodeLoop(toUpperCase(dropPadding(str)), 1,
                         [bits |-> 0, value |-> ToWord(0), output |-> <<>>,
                          thrown |-> FALSE])
    IN  IF st.thrown THEN "Invalid base32 character" ELSE st.output

\* bytes: none of the bits set, all of them, and the letters of "test"
ByteInputs == {0, 101, 115, 116, 255}
Buffers == UNION {[1..n -> ByteInputs] : n \in 0..MaxBuf}

\* base32Decode(base32Encode(buffer)), as the tests of test/totp.test.js call
\* it; the functions keep nothing between calls, one call per behaviour is made
RoundTrip ==
    /\ call = NoCall
    /\ \E buffer \in Buffers :
          call' = [fn |-> "base32", arg |-> buffer, encoded |-> base32Encode(buffer),
                   result |-> base32Decode(base32Encode(buffer))]
    /\ UNCHANGED <<users, twoFA, db, conns, state>>
    /\ UNCHANGED <<now, rows, nextId, pending, pc, req, attempts, nextSeq, seqDate,
                   orderNo, insertId, affected, seen, aborted, err, resp, events,
                   written, clients, released>>

NextBase32 == RoundTrip

SpecBase32 == Init /\ [][NextBase32]_vars


\* ---------------------------------------------- sockets that come and go
\* One admin is connected from the start; a second socket connects, says
\* hello and closes while orders are created.
Joining == 2
InitFanout ==
    /\ now = 0
    /\ rows = {}
    /\ nextId = 1
    /\ pending = [r \in Reqs |-> {}]
    /\ pc = [r \in Reqs |-> "idle"]
    /\ req = [r \in Reqs |-> NoReq]
    /\ attempts = [r \in Reqs |-> 0]
    /\ nextSeq = [r \in Reqs |-> 0]
    /\ seqDate = [r \in Reqs |-> 0]
    /\ orderNo = [r \in Reqs |-> 0]
    /\ insertId = [r \in Reqs |-> 0]
    /\ affected = [r \in Reqs |-> 0]
    /\ seen = [r \in Reqs |-> {}]
    /\ aborted = {}
    /\ err = [r \in Reqs |-> "none"]
    /\ resp = [r \in Reqs |-> 0]
    /\ events = <<>>
    /\ written = NoWrite
    /\ call = NoCall
    /\ clients = {w \in WsClients : w.id = 1}
    /\ released = [r \in Reqs |-> 0]
    /\ users = NoTotp
    /\ twoFA = [a \in AuthReqs |-> NoAuthReq]
    /\ db = EmptyDb
    /\ conns = [c \in Conns |-> NoConn]
    /\ state = {}

\* wss.on('connection', (ws) => { ws.clientType = 'unknown'; ... })
Connect ==
    /\ \A w \in clients : w.id # Joining
    /\ clients' = clients \cup
          {[id |-> Joining, clientType |-> "unknown", companyId |-> 2,
            readyState |-> "OPEN", since |-> 0, got |-> {}]}
    /\ UNCHANGED <<users, twoFA, db, conns, state>>
    /\ UNCHANGED <<now, rows, nextId, pending, pc, req, attempts, nextSeq, seqDate,
                   orderNo, insertId, affected, seen, aborted, err, resp, events,
                   written, call, released>>

\* mutant of HelloAnswer: the hello of an admin is answered with the backlog
HelloAnswerBacklog == 1..Len(events)

\* the broadcasts the message handler sends to a socket that said hello: an
\* admin is sent { type: 'snapshot' } with the courier locations, no broadcast
HelloAnswer == {}

\* ws.on('message') with data.type === 'hello', the first message of a socket
Hello ==
    /\ \E w \in clients, role \in {"admin", "courier"} :
          /\ w.readyState = "OPEN"
          /\ w.clientType = "unknown"
          /\ clients' = (clients \ {w}) \cup
                {[w EXCEPT !.clientType = role,
                           !.since = IF role = "admin" THEN Len(events) ELSE @,
                           !.got = IF role = "admin" THEN @ \cup HelloAnswer ELSE @]}
    /\ UNCHANGED <<users, twoFA, db, conns, state>>
    /\ UNCHANGED <<now, rows, nextId, pending, pc, req, attempts, nextSeq, seqDate,
                   orderNo, insertId, affected, seen, aborted, err, resp, events,
                   written, call, released>>

\* the socket closes: readyState is no longer OPEN
Close ==
    /\ \E w \in clients :
          /\ w.readyState = "OPEN"
          /\ clients' = (clients \ {w}) \cup {[w EXCEPT !.readyState = "CLOSED"]}
    /\ UNCHANGED <<users, twoFA, db, conns, state>>
    /\ UNCHANGED <<now, rows, nextId, pending, pc, req, attempts, nextSeq, seqDate,
                   orderNo, insertId, affected, seen, aborted, err, resp, events,
                   written, call, released>>

NextFanout ==
    \/ Connect
    \/ Hello
    \/ Close
    \/ \E r \in Reqs :
          \/ CreateStart(r)
          \/ BeginAlloc(r)
          \/ Insert(r)
          \/ Commit(r)
          \/ CreateFinish(r)

SpecFanout == InitFanout /\ [][NextFanout]_vars

\* the broadcasts a socket has been sent
Received(id) ==
    {i \in 1..Len(events) : id \in events[i].to}
    \cup UNION {w.got : w \in {x \in clients : x.id = id}}


\* ------------------------------------------------------ two-factor setup
\* The three handlers of auth.js that write users.totp_secret and
\* users.totp_enabled, for the requests of one user.  Each handler SELECTs the
\* row, and after its checks awaits an UPDATE: between the two, other
\* handlers run.

\* generateSecret(): base32 of 20 random bytes, any value
Secrets == {"S1", "S2"}

\* generateTOTP(secret, counter) for the time window the requests fall in
generateTOTP(secret) == IF secret = "S1" THEN "111111" ELSE "222222"

\* req.body.code: left out, the code of either secret, a code of neither
CodeInputs == {"", "111111", "222222", "000000"}

\* req.user?.userId: the user, a token without one, a user whose row is gone
UserIdInputs == {"u1", "undefined", "u9"}

\* verifyTOTP(secret, code): false without a secret or a code, else the code
\* is compared with generateTOTP of the secret
verifyTOTP(secret, code) ==
    /\ secret # "NULL"
    /\ code # ""
    /\ code = generateTOTP(secret)

\* requests are made in the order of their slots
CanAuth(a) ==
    /\ twoFA[a].pc = "idle"
    /\ IF a = 1 THEN TRUE ELSE twoFA[a - 1].pc # "idle"

\* the handler returns with res.status(status).json(...)
AuthAnswer(a, fn, status) ==
    twoFA' = [twoFA EXCEPT ![a] = [fn |-> fn, pc |-> "done", secret |-> "NULL",
                                   resp |-> status]]

\* the handler goes on to await its UPDATE
AuthAwait(a, fn, secret) ==
    twoFA' = [twoFA EXCEPT ![a] = [fn |-> fn, pc |-> "update", secret |-> secret,
                                   resp |-> 0]]

\* the checks all three handlers make on req.user?.userId and the SELECT
\* ... FROM users WHERE user_id = ? LIMIT 1: the status they answer, 0 if none
UserCheck(userId) ==
    IF userId = "undefined" THEN 401 ELSE IF userId # "u1" THEN 404 ELSE 0

\* setup2FA up to await pool.query("UPDATE users SET totp_secret = ? ...")
setup2FA(a) ==
    /\ CanAuth(a)
    /\ \E userId \in UserIdInputs, secret \in Secrets :
          IF UserCheck(userId) # 0 THEN AuthAnswer(a, "setup2FA", UserCheck(userId))
          ELSE IF users.totp_enabled THEN AuthAnswer(a, "setup2FA", 400)
          ELSE AuthAwait(a, "setup2FA", secret)
    /\ UNCHANGED <<users, db, conns, state>>
    /\ UNCHANGED <<now, rows, nextId, pending, pc, req, attempts, nextSeq, seqDate,
                   orderNo, insertId, affected, seen, aborted, err, resp, events,
                   written, call, clients, released>>

\* UPDATE users SET totp_secret = ? WHERE user_id = ?, then res.json
setup2FAStore(a) ==
    /\ twoFA[a].pc = "update"
    /\ twoFA[a].fn = "setup2FA"
    /\ users' = [users EXCEPT !.totp_secret = twoFA[a].secret]
    /\ AuthAnswer(a, "setup2FA", 200)
    /\ UNCHANGED <<db, conns, state>>
    /\ UNCHANGED <<now, rows, nextId, pending, pc, req, attempts, nextSeq, seqDate,
                   orderNo, insertId, affected, seen, aborted, err, resp, events,
                   written, call, clients, released>>

\* verifySetup2FA up to await pool.query("UPDATE users SET totp_enabled = TRUE ...")
verifySetup2FA(a) ==
    /\ CanAuth(a)
    /\ \E userId \in UserIdInputs, code \in CodeInputs :
          IF userId = "undefined" THEN AuthAnswer(a, "verifySetup2FA", 401)
          ELSE IF code = "" THEN AuthAnswer(a, "verifySetup2FA", 400)
          ELSE IF UserCheck(userId) # 0 THEN AuthAnswer(a, "verifySetup2FA", 404)
          ELSE IF users.totp_secret = "NULL" THEN AuthAnswer(a, "verifySetup2FA", 400)
          ELSE IF users.totp_enabled THEN AuthAnswer(a, "verifySetup2FA", 400)
          ELSE IF ~verifyTOTP(users.totp_secret, code)
               THEN AuthAnswer(a, "verifySetup2FA", 400)
          ELSE AuthAwait(a, "verifySetup2FA", "NULL")
    /\ UNCHANGED <<users, db, conns, state>>
    /\ UNCHANGED <<now, rows, nextId, pending, pc, req, attempts, nextSeq, seqDate,
                   orderNo, insertId, affected, seen, aborted, err, resp, events,
                   written, call, clients, released>>

\* UPDATE users SET totp_enabled = TRUE WHERE user_id = ?, then res.json
verifySetup2FAEnable(a) ==
    /\ twoFA[a].pc = "update"
    /\ twoFA[a].fn = "verifySetup2FA"
    /\ users' = [users EXCEPT !.totp_enabled = TRUE]
    /\ AuthAnswer(a, "verifySetup2FA", 200)
    /\ UNCHANGED <<db, conns, state>>
    /\ UNCHANGED <<now, rows, nextId, pending, pc, req, attempts, nextSeq, seqDate,
                   orderNo, insertId, affected, seen, aborted, err, resp, events,
                   written, call, clients, released>>

\* disable2FA up to await pool.query("UPDATE users SET totp_enabled = FALSE,
\* totp_secret = NULL ...")
disable2FA(a) ==
    /\ CanAuth(a)
    /\ \E userId \in UserIdInputs, code \in CodeInputs :
          IF userId = "undefined" THEN AuthAnswer(a, "disable2FA", 401)
          ELSE IF code = "" THEN AuthAnswer(a, "disable2FA", 400)
          ELSE IF UserCheck(userId) # 0 THEN AuthAnswer(a, "disable2FA", 404)
          ELSE IF ~users.totp_enabled THEN AuthAnswer(a, "disable2FA", 400)
          ELSE IF ~verifyTOTP(users.totp_secret, code)
               THEN AuthAnswer(a, "disable2FA", 400)
          ELSE AuthAwait(a, "disable2FA", "NULL")
    /\ UNCHANGED <<users, db, conns, state>>
    /\ UNCHANGED <<now, rows, nextId, pending, pc, req, attempts, nextSeq, seqDate,
                   orderNo, insertId, affected, seen, aborted, err, resp, events,
                   written, call, clients, released>>

\* UPDATE users SET totp_enabled = FALSE, totp_secret = NULL WHERE
\* user_id = ?, then res.json
disable2FAClear(a) ==
    /\ twoFA[a].pc = "update"
    /\ twoFA[a].fn = "disable2FA"
    /\ users' = [users EXCEPT !.totp_enabled = FALSE, !.totp_secret = "NULL"]
    /\ AuthAnswer(a, "disable2FA", 200)
    /\ UNCHANGED <<db, conns, state>>
    /\ UNCHANGED <<now, rows, nextId, pending, pc, req, attempts, nextSeq, seqDate,
                   orderNo, insertId, affected, seen, aborted, err, resp, events,
                   written, call, clients, released>>

\* the awaited UPDATE rejects: catch (err) { res.status(500).json(...) }
AuthUpdateFail(a) ==
    /\ twoFA[a].pc = "update"
    /\ AuthAnswer(a, twoFA[a].fn, 500)
    /\ UNCHANGED <<users, db, conns, state>>
    /\ UNCHANGED <<now, rows, nextId, pending, pc, req, attempts, nextSeq, seqDate,
                   orderNo, insertId, affected, seen, aborted, err, resp, events,
                   written, call, clients, released>>

Next2FA ==
    \E a \in AuthReqs :
        \/ setup2FA(a)
        \/ setup2FAStore(a)
        \/ verifySetup2FA(a)
        \/ verifySetup2FAEnable(a)
        \/ disable2FA(a)
        \/ disable2FAClear(a)
        \/ AuthUpdateFail(a)

Spec2FA == Init /\ [][Next2FA]_vars

\* ------------------------------------------------------- SQLite adapter
\* createSqlitePool: one better-sqlite3 handle (db) behind pool.query and
\* behind every object getConnection() returns.  Each object keeps its own
\* inTransaction flag; BEGIN, COMMIT and ROLLBACK go to the one handle.  The
\* statements are INSERTs, each row marked with the object it was issued
\* through (0: pool.query itself).

\* the other part of the adapter, pool.query called directly
PoolItself == 0

\* result.lastInsertRowid of an INSERT: one more than the largest rowid
lastInsertRowid == IF db.main = {} THEN 1 ELSE SetMax({w.n : w \in db.main}) + 1

\* stmt.run(...params) of an INSERT on the handle: inside a transaction of
\* the handle the row is undone by its ROLLBACK, outside it is committed
Run(by) == [db EXCEPT !.main = @ \cup {[by |-> by, n |-> lastInsertRowid]}]

\* pool.getConnection(): a new object, let inTransaction = false
getConnection(c) ==
    /\ ~conns[c].made
    /\ conns' = [conns EXCEPT ![c] = [NoConn EXCEPT !.made = TRUE]]
    /\ UNCHANGED <<users, twoFA, db, state>>
    /\ UNCHANGED <<now, rows, nextId, pending, pc, req, attempts, nextSeq, seqDate,
                   orderNo, insertId, affected, seen, aborted, err, resp, events,
                   written, call, clients, released>>

\* pool.query(sql, params) with an INSERT
poolQuery ==
    /\ Cardinality(db.main) < MaxWrites
    /\ db' = Run(PoolItself)
    /\ UNCHANGED <<users, twoFA, conns, state>>
    /\ UNCHANGED <<now, rows, nextId, pending, pc, req, attempts, nextSeq, seqDate,
                   orderNo, insertId, affected, seen, aborted, err, resp, events,
                   written, call, clients, released>>

\* conn.query(sql, params): return pool.query(sql, params)
connQuery(c) ==
    /\ conns[c].made
    /\ Cardinality(db.main) < MaxWrites
    /\ db' = Run(c)
    /\ conns' = [conns EXCEPT ![c].last = "query"]
    /\ UNCHANGED <<users, twoFA, state>>
    /\ UNCHANGED <<now, rows, nextId, pending, pc, req, attempts, nextSeq, seqDate,
                   orderNo, insertId, affected, seen, aborted, err, resp, events,
                   written, call, clients, released>>

\* conn.beginTransaction(): if (!inTransaction) { db.exec("BEGIN IMMEDIATE");
\* inTransaction = true }.  BEGIN on a handle that has a transaction open
\* throws (cannot start a transaction within a transaction) before the flag
\* is set
beginTransaction(c) ==
    /\ conns[c].made
    /\ IF conns[c].inTransaction
       THEN /\ conns' = [conns EXCEPT ![c].last = "beginTransaction"]
            /\ db' = db
       ELSE IF db.inTransaction
       THEN /\ conns' = [conns EXCEPT ![c].last = "beginTransaction",
                                      ![c].threw = "beginTransaction"]
            /\ db' = db
       ELSE /\ conns' = [conns EXCEPT ![c].last = "beginTransaction",
                                      ![c].inTransaction = TRUE]
            /\ db' = [db EXCEPT !.inTransaction = TRUE, !.journal = db.main]
    /\ UNCHANGED <<users, twoFA, state>>
    /\ UNCHANGED <<now, rows, nextId, pending, pc, req, attempts, nextSeq, seqDate,
                   orderNo, insertId, affected, seen, aborted, err, resp, events,
                   written, call, clients, released>>

\* conn.commit(): if (inTransaction) { db.exec("COMMIT"); inTransaction = false }
commit(c) ==
    /\ conns[c].made
    /\ conns' = [conns EXCEPT ![c].last = "commit", ![c].inTransaction = FALSE]
    /\ db' = IF conns[c].inTransaction
             THEN [db EXCEPT !.inTransaction = FALSE, !.journal = {}]
             ELSE db
    /\ UNCHANGED <<users, twoFA, state>>
    /\ UNCHANGED <<now, rows, nextId, pending, pc, req, attempts, nextSeq, seqDate,
                   orderNo, insertId, affected, seen, aborted, err, resp, events,
                   written, call, clients, released>>

\* db.exec("ROLLBACK"): the handle is back at what it held at BEGIN
Rollback(c) ==
    [db EXCEPT !.inTransaction = FALSE, !.journal = {}, !.main = db.journal]

\* conn.rollback(): if (inTransaction) { db.exec("ROLLBACK"); inTransaction = false }
rollback(c) ==
    /\ conns[c].made
    /\ conns' = [conns EXCEPT ![c].last = "rollback", ![c].inTransaction = FALSE]
    /\ db' = IF conns[c].inTransaction THEN Rollback(c) ELSE db
    /\ UNCHANGED <<users, twoFA, state>>
    /\ UNCHANGED <<now, rows, nextId, pending, pc, req, attempts, nextSeq, seqDate,
                   orderNo, insertId, affected, seen, aborted, err, resp, events,
                   written, call, clients, released>>

\* conn.release(): an open transaction is rolled back; the object is not used
\* again
release(c) ==
    /\ conns[c].made
    /\ conns' = [conns EXCEPT ![c] = [NoConn EXCEPT !.last = "release",
                                                    !.threw = conns[c].threw]]
    /\ db' = IF conns[c].inTransaction THEN Rollback(c) ELSE db
    /\ UNCHANGED <<users, twoFA, state>>
    /\ UNCHANGED <<now, rows, nextId, pending, pc, req, attempts, nextSeq, seqDate,
                   orderNo, insertId, affected, seen, aborted, err, resp, events,
                   written, call, clients, released>>

NextSqlite ==
    \/ poolQuery
    \/ \E c \in Conns :
          \/ getConnection(c)
          \/ connQuery(c)
          \/ beginTransaction(c)
          \/ commit(c)
          \/ rollback(c)
          \/ release(c)

SpecSqlite == Init /\ [][NextSqlite]_vars

\* ------------------------------------------------- the message handler
\* wss.on('connection') and ws.on('message') as a whole: sockets connect,
\* send messages of every kind and close; no socket exists at the start.

\* a JSON number, and a value that is none
Num(v) == [typeof |-> "number", v |-> v]
NotNum == [typeof |-> "string", v |-> 0]

\* raw messages: one parseJsonSafe gives null for, a hello of an admin, of a
\* courier and without role, locations with and without courierId, lat and
\* lng as numbers, and a message of another type
DataInputs ==
    {[type |-> "null"], [type |-> "ping"]}
    \cup {[type |-> "hello", role |-> r] : r \in {"admin", "courier", "undefined"}}
    \cup {[type |-> "location", courierId |-> c, lat |-> Num(1), lng |-> Num(1)] :
             c \in {"c1", "undefined"}}
    \cup {[type |-> "location", courierId |-> "c1", lat |-> la, lng |-> Num(1)] :
             la \in {Num(2), NotNum}}
    \cup {[type |-> "location", courierId |-> "c1", lat |-> Num(1), lng |-> NotNum]}

\* wss.on('connection', (ws) => { ws.clientType = 'unknown'; ... })
Connection(id) ==
    /\ \A w \in clients : w.id # id
    /\ clients' = clients \cup
          {[id |-> id, clientType |-> "unknown", companyId |-> 1,
            readyState |-> "OPEN", since |-> 0, got |-> {}]}
    /\ UNCHANGED <<users, twoFA, db, conns, state>>
    /\ UNCHANGED <<now, rows, nextId, pending, pc, req, attempts, nextSeq, seqDate,
                   orderNo, insertId, affected, seen, aborted, err, resp, events,
                   written, call, released>>

\* mutant of LocationAccepted: the type of the socket is not looked at
LocationAcceptedFromAny(w, data) == data.type = "location"

\* if (data.type === 'location' && ws.clientType !== 'admin')
LocationAccepted(w, data) == data.type = "location" /\ w.clientType # "admin"

\* typeof courierId === 'undefined' || typeof lat !== 'number' ||
\* typeof lng !== 'number'
LocationIncomplete(data) ==
    \/ data.courierId = "undefined"
    \/ data.lat.typeof # "number"
    \/ data.lng.typeof # "number"

\* const payload = { type: 'location', courierId, lat, lng, ... }
LocationPayload(data) ==
    [type |-> "location", courierId |-> data.courierId, lat |-> data.lat.v,
     lng |-> data.lng.v]

\* state.set(String(courierId), { ...payload, type: undefined })
StateSet(payload) ==
    {v \in state : v.courierId # payload.courierId}
    \cup {[courierId |-> payload.courierId, lat |-> payload.lat, lng |-> payload.lng]}

\* ws.on('message', (raw) => { ... }) on socket w.  call keeps the socket and
\* the message (history, read by no action)
Message ==
    \E w \in clients, data \in DataInputs :
        /\ w.readyState = "OPEN"
        /\ call' = [fn |-> "message", ws |-> w.id, data |-> data]
        /\ IF data.type = "null" THEN UNCHANGED <<clients, state, events>>
           ELSE IF data.type = "hello"
           THEN /\ clients' = (clients \ {w}) \cup
                      {[w EXCEPT !.clientType =
                                     IF data.role = "admin" THEN "admin" ELSE "courier",
                                 !.since = IF data.role = "admin" THEN Len(events) ELSE @,
                                 !.got = IF data.role = "admin" THEN @ \cup HelloAnswer
                                         ELSE @]}
                /\ UNCHANGED <<state, events>>
           ELSE IF LocationAccepted(w, data) /\ ~LocationIncomplete(data)
           THEN /\ Len(events) < MaxBroadcasts
                /\ state' = StateSet(LocationPayload(data))
                /\ events' = Append(events, Sent(LocationPayload(data), "sent"))
                /\ UNCHANGED clients
           ELSE UNCHANGED <<clients, state, events>>
        /\ UNCHANGED <<users, twoFA, db, conns>>
        /\ UNCHANGED <<now, rows, nextId, pending, pc, req, attempts, nextSeq, seqDate,
                       orderNo, insertId, affected, seen, aborted, err, resp,
                       written, released>>

InitWs ==
    /\ now = 0
    /\ rows = {}
    /\ nextId = 1
    /\ pending = [r \in Reqs |-> {}]
    /\ pc = [r \in Reqs |-> "idle"]
    /\ req = [r \in Reqs |-> NoReq]
    /\ attempts = [r \in Reqs |-> 0]
    /\ nextSeq = [r \in Reqs |-> 0]
    /\ seqDate = [r \in Reqs |-> 0]
    /\ orderNo = [r \in Reqs |-> 0]
    /\ insertId = [r \in Reqs |-> 0]
    /\ affected = [r \in Reqs |-> 0]
    /\ seen = [r \in Reqs |-> {}]
    /\ aborted = {}
    /\ err = [r \in Reqs |-> "none"]
    /\ resp = [r \in Reqs |-> 0]
    /\ events = <<>>
    /\ written = NoWrite
    /\ call = NoCall
    /\ clients = {}
    /\ released = [r \in Reqs |-> 0]
    /\ users = NoTotp
    /\ twoFA = [a \in AuthReqs |-> NoAuthReq]
    /\ db = EmptyDb
    /\ conns = [c \in Conns |-> NoConn]
    /\ state = {}

NextWs ==
    \/ \E id \in 1..MaxSockets : Connection(id)
    \/ Message
    \/ Close

SpecWs == InitWs /\ [][NextWs]_vars

\* ------------------------------------------------- creates that must finish
\* Only creates are served.  Every step of a handler that can be taken is
\* taken in the end: the event loop resumes each continuation whose await has
\* settled, and the database answers each statement.  That a statement fails
\* is left to chance.
NextCreate ==
    \E r \in Reqs :
        \/ CreateStart(r)
        \/ BeginAlloc(r)
        \/ Insert(r)
        \/ Commit(r)
        \/ TxFail(r)
        \/ CreateFinish(r)
        \/ RereadFail(r)

SpecCreateFair ==
    /\ Init
    /\ [][NextCreate]_vars
    /\ \A r \in Reqs :
          /\ WF_vars(BeginAlloc(r))
          /\ WF_vars(Insert(r))
          /\ WF_vars(Commit(r))
          /\ WF_vars(CreateFinish(r))

\* the allocations rolled back in the partition of request r
AbortedBefore(r) ==
    {a \in aborted : a.company_id = req[r].companyId /\ a.order_seq_date = seqDate[r]}


\* ======================================================================
\* Properties
\* ======================================================================
SamePartition(o, p) ==
    o.company_id = p.company_id /\ o.order_seq_date = p.order_seq_date

\* the calls of broadcastToAdmins made by the handler of request r
EventsOf(r) == {i \in 1..Len(events) : events[i].req = r}

C2_CommitBeforeNotify ==
    /\ \A i \in 1..Len(events) :
          /\ \E o \in rows :
                /\ o.order_id = events[i].order.id
                /\ o.company_id = events[i].companyId
                /\ o.order_seq = events[i].order.orderSeq
                /\ o.order_seq_date = events[i].order.orderDay
          /\ events[i].type = "order_created" =>
                insertId[events[i].req] = events[i].order.id
    /\ \A r \in Reqs :
          (req[r].kind = "create" /\ insertId[r] = 0) => EventsOf(r) = {}

\* a create was rolled back after its allocation and is over, while events
\* of other requests were published
C2_Witness ==
    /\ \E r \in Reqs :
          /\ req[r].kind = "create" /\ pc[r] = "done" /\ resp[r] = 500
          /\ insertId[r] = 0
          /\ aborted # {}
    /\ \E i \in 1..Len(events) : events[i].type = "order_created"
    /\ \E i \in 1..Len(events) : events[i].type = "order_updated"

\* the request changed the table: its INSERT was committed, or its UPDATE
\* matched a row
Mutated(r) == insertId[r] # 0 \/ affected[r] > 0

\* C3: every committed mutation is followed by exactly one publish attempt:
\* a handler that changed the table and is over has called broadcastToAdmins
\* once, and no handler calls it twice.
C3_ExactlyOnePublish ==
    \A r \in Reqs :
        /\ Cardinality(EventsOf(r)) <= 1
        /\ (pc[r] = "done" /\ Mutated(r)) => Cardinality(EventsOf(r)) = 1

\* a PUT whose UPDATE changed a row has ended without a broadcastToAdmins call
C3_Witness ==
    \E r \in Reqs :
        /\ req[r].kind = "put" /\ pc[r] = "done"
        /\ affected[r] > 0
        /\ EventsOf(r) = {}

\* C4: a create that answers with an error leaves no row behind.
C4_FailedCreateLeavesNothing ==
    \A r \in Reqs :
        (req[r].kind = "create" /\ pc[r] = "done" /\ resp[r] >= 400) =>
            ~ \E o \in rows : o.order_id = insertId[r]

\* a create answered 500 although the row it committed is in the table
C4_Witness ==
    \E r \in Reqs : \E o \in rows :
        /\ req[r].kind = "create" /\ pc[r] = "done" /\ resp[r] = 500
        /\ o.order_id = insertId[r]
        /\ o.company_id = req[r].companyId

\* C5: write-once sequence: no step changes the order_seq or the
\* order_seq_date of an existing order; a PUT changing orderType or
\* scheduledAt and a PATCH of the status leave both as assigned at creation.
C5_WriteOnce ==
    [][\A o \in rows : \E p \in rows' :
          /\ p.order_id = o.order_id
          /\ p.order_seq = o.order_seq
          /\ p.order_seq_date = o.order_seq_date]_vars

\* an order numbered as an active order of an earlier day was turned by a
\* PUT into a preorder scheduled on another day, and a PATCH then changed
\* its status
C5_Witness ==
    \E o \in rows :
        /\ o.order_type = "preorder"
        /\ o.scheduled_at # NullTs
        /\ o.order_seq_date # UTCDate(o.scheduled_at)
        /\ o.status \in StatusInputs

\* C6: reservation semantics: a preorder with a scheduledAt is numbered in
\* the partition of its scheduled day, every other order in the partition of
\* the day its request arrived, and one counter serves all order types of a
\* partition: an order's number is its rank among the partition's orders.
C6_ReservationSemantics ==
    /\ \A o \in rows :
          o.order_seq = Cardinality({p \in rows :
                            SamePartition(o, p) /\ p.order_id <= o.order_id})
    /\ \A r \in Reqs :
          (req[r].kind = "create" /\ pc[r] \in {"begin", "insert", "commit", "reread"}) =>
              seqDate[r] = IF req[r].orderType = "preorder" /\ req[r].scheduledAt # NullTs
                           THEN UTCDate(req[r].scheduledAt)
                           ELSE UTCDate(orderNo[r])
    /\ \A r \in Reqs :
          (req[r].kind = "create" /\ pc[r] = "reread") =>
              \A o \in rows : o.order_id = insertId[r] =>
                  /\ o.order_seq_date = seqDate[r]
                  /\ o.company_id = req[r].companyId

\* two preorders scheduled on day D hold numbers 1 and 2 of partition D, and
\* an active order whose request arrived on day D has just been committed
\* with number 3
C6_Witness ==
    \E r \in Reqs : \E a \in rows : \E b \in rows : \E c \in rows :
        /\ req[r].kind = "create" /\ pc[r] = "reread"
        /\ req[r].orderType = "active"
        /\ UTCDate(orderNo[r]) = UTCDate(MaxNow)
        /\ c.order_id = insertId[r] /\ c.order_seq = 3
        /\ c.order_seq_date = UTCDate(MaxNow)
        /\ SamePartition(a, c) /\ SamePartition(b, c)
        /\ a.order_type = "preorder" /\ a.scheduled_at = MaxNow /\ a.order_seq = 1
        /\ b.order_type = "preorder" /\ b.scheduled_at = MaxNow /\ b.order_seq = 2

\* C7: allocateDailySeq returns 1 for a partition without orders and
\* otherwise the largest order_seq of the partition plus one; the first
\* order of a partition carries number 1.
C7_AllocateMaxPlusOne ==
    /\ [](\A o \in rows :
            (\A p \in rows : SamePartition(o, p) => o.order_id <= p.order_id) =>
                o.order_seq = 1)
    /\ [][\A r \in Reqs :
            (pc[r] = "begin" /\ pc'[r] = "insert") =>
                LET S == {o.order_seq : o \in {x \in rows :
                              /\ x.company_id = req[r].companyId
                              /\ x.order_seq_date = seqDate[r]}}
                IN  IF S = {} THEN nextSeq'[r] = 1
                    ELSE /\ nextSeq'[r] - 1 \in S
                         /\ \A x \in S : x < nextSeq'[r]]_vars

\* one request was given 2 in a partition that held an order, while another
\* was given 1 in a fresh partition
C7_Witness ==
    \E r \in Reqs : \E q \in Reqs :
        /\ pc[r] = "insert" /\ nextSeq[r] = 2 /\ seen[r] # {}
        /\ pc[q] = "insert" /\ nextSeq[q] = 1 /\ seen[q] = {}

Days == {UTCDate(t) : t \in Instants}

\* C8: partition independence: the number the next allocation returns for a
\* partition changes only when a create commits into that very partition.
\* (A connection without pending rows reads the committed rows alone, so the
\* allocations are compared on the steps that change rows.)
C8_PartitionIndependence ==
    [][rows' # rows =>
          \A c \in Tenants : \A d \in Days : \A r \in Reqs :
              (/\ pending[r] = {}
               /\ pending'[r] = {}
               /\ allocateDailySeq(r, c, d)' # allocateDailySeq(r, c, d)) =>
                  \E q \in Reqs :
                      /\ pc[q] = "commit" /\ pc'[q] = "reread"
                      /\ req[q].companyId = c
                      /\ seqDate[q] = d]_vars

\* tenant 1 holds numbers 1 and 2 of a day, and tenant 2, creating afterwards
\* on the same day, was given 1
C8_Witness ==
    \E o \in rows : \E p \in rows : \E q \in rows :
        /\ o.company_id = 1 /\ p.company_id = 1 /\ q.company_id = 2
        /\ o.order_seq_date = p.order_seq_date /\ p.order_seq_date = q.order_seq_date
        /\ o.order_seq = 1 /\ p.order_seq = 2 /\ q.order_seq = 1
        /\ q.order_id > p.order_id

C10_CommitOrder ==
    /\ [](\A r \in Reqs :
            (req[r].kind = "create" /\ pc[r] = "reread") =>
                \A o \in rows : \A p \in rows :
                    (p.order_id = insertId[r] /\ o.order_id \in seen[r]) =>
                        o.order_seq < p.order_seq)
    /\ [][\A o \in rows : \E p \in rows' :
            SamePartition(o, p) /\ p.order_seq >= o.order_seq]_vars

\* a create that lost a race for a number retried and has committed behind
\* the orders that were there when it opened its last transaction
C10_Witness ==
    \E r \in Reqs :
        /\ req[r].kind = "create" /\ pc[r] = "reread"
        /\ err[r] = "ER_DUP_ENTRY"
        /\ Cardinality(seen[r]) >= 2

\* C11: a create whose every attempt failed with a sequence conflict answers
\* 409 (ContentionExceeded), not the 500 of a generic persistence failure.
C11_ContentionExceeded409 ==
    \A r \in Reqs :
        (/\ req[r].kind = "create" /\ pc[r] = "done"
         /\ insertId[r] = 0 /\ err[r] = "ER_DUP_ENTRY") => resp[r] = 409

\* a create has given up after its last attempt ended in ER_DUP_ENTRY
C11_Witness ==
    \E r \in Reqs :
        /\ req[r].kind = "create" /\ pc[r] = "done"
        /\ insertId[r] = 0 /\ err[r] = "ER_DUP_ENTRY"
        /\ resp[r] = 500
        /\ Cardinality({o \in rows : o.company_id = 1 /\ o.order_seq_date = 0}) = MaxAttempts

C14_StatusInLifecycle ==
    \A o \in rows : o.status \in Statuses

\* a PATCH carrying a status outside the lifecycle was answered 200 and the
\* order now has that status
C14_Witness ==
    \E r \in Reqs : \E o \in rows :
        /\ req[r].kind = "patch" /\ pc[r] = "done" /\ resp[r] = 200
        /\ affected[r] > 0
        /\ o.status \notin Statuses
        /\ \E i \in EventsOf(r) : events[i].order.id = o.order_id
                                  /\ events[i].order.status = o.status

\* C15: cancelled is terminal: no step moves an order whose status is
\* cancelled to another status.
C15_CancelledTerminal ==
    [][\A o \in rows : o.status = "cancelled" =>
          \A p \in rows' : p.order_id = o.order_id => p.status = "cancelled"]_vars

\* an order was published as cancelled and later, after a PUT whose body
\* leaves the status out, as new
C15_Witness ==
    \E i \in 1..Len(events) : \E j \in 1..Len(events) :
        /\ i < j
        /\ events[i].order.id = events[j].order.id
        /\ events[i].order.status = "cancelled"
        /\ events[j].order.status = "new"
        /\ req[events[j].req].kind = "put"
        /\ \E o \in rows : o.order_id = events[j].order.id /\ o.status = "new"

\* C16: tenant-scoped fan-out: an event published with a tenant id is sent
\* only to sockets of subscribers of that tenant.
C16_TenantScopedFanout ==
    \A i \in 1..Len(events) : \A ws \in WsClients :
        ws.id \in events[i].to => ws.companyId = events[i].companyId

\* an order event of tenant 1 was sent to the socket of tenant 2's admin
C16_Witness ==
    \E i \in 1..Len(events) : \E ws \in WsClients :
        /\ events[i].companyId = 1
        /\ events[i].order.id \in {o.order_id : o \in {x \in rows : x.company_id = 1}}
        /\ ws.companyId = 2 /\ ws.clientType = "admin"
        /\ ws.id \in events[i].to

\* C17: the outcome of the notification never changes the outcome of the
\* operation: whenever a handler has called broadcastToAdmins, whether the
\* call returned or threw, its caller has the success answer and the order
\* published is committed; a socket that is not open is sent nothing.
C17_NotifyOutcomeIrrelevant ==
    \A i \in 1..Len(events) :
        /\ pc[events[i].req] = "done"
        /\ resp[events[i].req] = 200
        /\ \E o \in rows : /\ o.order_id = events[i].order.id
                           /\ o.company_id = events[i].companyId
        /\ \A ws \in WsClients : ws.readyState # "OPEN" => ws.id \notin events[i].to

\* the broadcast of a create threw, the broadcast of an update threw, and
\* another broadcast went through
C17_Witness ==
    \E i \in 1..Len(events) : \E j \in 1..Len(events) : \E k \in 1..Len(events) :
        /\ events[i].type = "order_created" /\ events[i].outcome = "throws"
        /\ events[j].type = "order_updated" /\ events[j].outcome = "throws"
        /\ events[k].outcome = "sent" /\ events[k].to # {}
        /\ resp[events[i].req] = 200 /\ resp[events[j].req] = 200

C19_DeriveOrderSeqDate ==
    \A r \in Reqs :
        req[r].kind = "derive" =>
            seqDate[r] = IF req[r].orderType = "preorder" /\ req[r].scheduledAt # NullTs
                         THEN UTCDate(req[r].scheduledAt)
                         ELSE UTCDate(orderNo[r])

\* an active order with a scheduledAt of another day got the day of the
\* call, a preorder without scheduledAt got the day of the call, and a
\* preorder scheduled on another day than the call's got its scheduled day
C19_Witness ==
    \E r \in Reqs : \E q \in Reqs : \E p \in Reqs :
        /\ req[r].kind = "derive" /\ req[r].orderType = "active"
        /\ req[r].scheduledAt # NullTs
        /\ UTCDate(req[r].scheduledAt) # UTCDate(orderNo[r])
        /\ seqDate[r] = UTCDate(orderNo[r])
        /\ req[q].kind = "derive" /\ req[q].orderType = "preorder"
        /\ req[q].scheduledAt = NullTs /\ orderNo[q] > 0
        /\ seqDate[q] = UTCDate(orderNo[q])
        /\ req[p].kind = "derive" /\ req[p].orderType = "preorder"
        /\ req[p].scheduledAt # NullTs
        /\ UTCDate(req[p].scheduledAt) # UTCDate(orderNo[p])
        /\ seqDate[p] = UTCDate(req[p].scheduledAt)

\* C20: order_type and company_id of an order are immutable after creation:
\* no step changes either column of an existing order.
C20_TypeAndTenantImmutable ==
    [][\A o \in rows : \E p \in rows' :
          /\ p.order_id = o.order_id
          /\ p.order_type = o.order_type
          /\ p.company_id = o.company_id]_vars

\* an order was published as an active order and later, after a PUT, as a
\* preorder
C20_Witness ==
    \E i \in 1..Len(events) : \E j \in 1..Len(events) :
        /\ i < j
        /\ events[i].order.id = events[j].order.id
        /\ events[i].order.orderType = "active"
        /\ events[j].order.orderType = "preorder"
        /\ req[events[j].req].kind = "put"
        /\ resp[events[j].req] = 200


C22_EventsIdentified ==
    /\ \A i \in 1..Len(events) :
          {"companyId", "order", "ts", "eventId"} \subseteq DOMAIN events[i]
    /\ \A i \in 1..Len(events) : \A j \in 1..Len(events) :
          i # j => events[i].eventId # events[j].eventId

\* an order_created with its eventId and ts was published, and after it an
\* order_updated for the same order
C22_Witness ==
    \E i \in 1..Len(events) : \E j \in 1..Len(events) :
        /\ i < j
        /\ events[i].type = "order_created"
        /\ events[i].eventId = i /\ events[i].ts \in Instants
        /\ events[j].type = "order_updated"
        /\ events[j].order.id = events[i].order.id
        /\ events[j].companyId = events[i].companyId


\* C23: PATCH /:id/status changes only the status of the order it targets
\* (the updated_at column is not among the columns of the model): every other
\* column of that order and every other order, committed or pending, is left
\* as it was, and no order appears or disappears.
C23_PatchFrame ==
    [][\A r \in Reqs :
          /\ (pc[r] = "idle" /\ pc'[r] = "reread" /\ req'[r].kind = "patch") =>
                /\ \A o \in rows :
                      IF o.company_id = req'[r].companyId /\ o.order_id = req'[r].id
                      THEN [o EXCEPT !.status = req'[r].status] \in rows'
                      ELSE o \in rows'
                /\ Cardinality(rows') = Cardinality(rows)
                /\ pending' = pending
                /\ nextId' = nextId
          /\ (pc[r] = "reread" /\ req[r].kind = "patch" /\ pc'[r] # "reread") =>
                /\ rows' = rows
                /\ pending' = pending
                /\ nextId' = nextId]_vars

\* a PATCH has moved a preorder of tenant 1 to ready while another order of
\* tenant 1 is still new
C23_Witness ==
    \E r \in Reqs : \E o \in rows : \E p \in rows :
        /\ req[r].kind = "patch" /\ pc[r] = "reread" /\ affected[r] = 1
        /\ Matches(o, req[r].companyId, req[r].id)
        /\ o.company_id = 1 /\ o.order_type = "preorder" /\ o.status = "ready"
        /\ p.company_id = 1 /\ p.order_id # o.order_id /\ p.status = "new"


\* C24: the order list holds only orders of the caller's tenant, whatever tab
\* says; it is ordered newest first (created_at descending, then order_id
\* descending); and under tab=active (as sent, in another case, or left out)
\* it holds only orders of type active whose status is new, ready, enroute
\* or paused.
C24_ListTenantScoped ==
    call.fn = "list" =>
        /\ \A i \in 1..Len(call.items) :
              \E o \in rows :
                  /\ o.order_id = call.items[i].id
                  /\ o.company_id = call.companyId
                  /\ ListDto(o) = call.items[i]
        /\ \A i \in 1..Len(call.items) : \A j \in 1..Len(call.items) :
              i < j =>
                 \/ call.items[i].createdAt > call.items[j].createdAt
                 \/ /\ call.items[i].createdAt = call.items[j].createdAt
                    /\ call.items[i].id > call.items[j].id
        /\ (\/ call.tab.type = "undefined"
            \/ /\ call.tab.type = "string"
               /\ toLowerCase(call.tab.s) = Lat(<<"a", "c", "t", "i", "v", "e">>)) =>
              \A i \in 1..Len(call.items) :
                  /\ call.items[i].orderType = "active"
                  /\ call.items[i].status \in {"new", "ready", "enroute", "paused"}

\* tab=ACTIVE was answered with two orders of the caller created in the same
\* instant, the higher id first, while the table also holds an active order
\* of the other tenant
C24_Witness ==
    /\ call.fn = "list"
    /\ call.tab = Str(toUpperCase(Lat(<<"a", "c", "t", "i", "v", "e">>)))
    /\ Len(call.items) = 2
    /\ call.items[1].createdAt = call.items[2].createdAt
    /\ call.items[1].id > call.items[2].id
    /\ \E o \in rows : o.company_id # call.companyId /\ o.order_type = "active"
                         /\ o.status = "new"


\* C25: base32Decode(base32Encode(b)) = b for every byte buffer b, the empty
\* one and those of more than four bytes, whose first bytes have left the
\* 32 bits of the encoder's accumulator, included.
C25_Base32RoundTrip ==
    call.fn = "base32" => call.result = call.arg

\* a buffer of five bytes with the top bit of the first byte set came back;
\* and the model encodes "test" as the repository's test expects (ORSXG5A)
C25_Witness ==
    /\ call.fn = "base32"
    /\ Len(call.arg) = 5 /\ call.arg[1] = 255 /\ call.arg[5] = 116
    /\ Len(call.encoded) = 8
    /\ call.result = call.arg
    /\ base32Encode(<<116, 101, 115, 116>>)
          = toUpperCase(Lat(<<"o", "r", "s", "x", "g">>)) \o Lat(<<"5">>)
            \o toUpperCase(Lat(<<"a">>))
    /\ base32Encode(<<>>) = <<>>


\* C26: no replay: a socket is sent a broadcast only in the step that
\* publishes it, and only if it is open and has said hello as admin in the
\* state the publish starts from; nothing published earlier reaches it later.
C26_NoReplay ==
    [][\A id \in {1, Joining} :
          LET new == Received(id)' \ Received(id)
          IN  new # {} =>
                 /\ Len(events') = Len(events) + 1
                 /\ new = {Len(events')}
                 /\ \E w \in clients :
                       /\ w.id = id
                       /\ w.readyState = "OPEN"
                       /\ w.clientType = "admin"]_vars

\* the first broadcast went to the admin connected from the start; the second
\* socket said hello as admin after it, and has been sent the second
\* broadcast only
C26_Witness ==
    /\ Len(events) = 2
    /\ events[1].to = {1}
    /\ \E w \in clients :
          /\ w.id = Joining /\ w.clientType = "admin" /\ w.since = 1
          /\ Received(Joining) = {2}


\* C27: a create makes at most 5 transaction attempts: an attempt is repeated
\* only after it failed with a sequence conflict and fewer than 5 attempts
\* were made, every other failure ends the request, and each repetition
\* starts with nothing pending, counts one attempt more and takes its number
\* from the maximum of the partition as committed by then.
C27_BoundedRetry ==
    /\ [](\A r \in Reqs : attempts[r] <= MaxAttempts)
    /\ [][\A r \in Reqs :
            /\ (pc[r] \in {"insert", "commit"} /\ pc'[r] = "begin") =>
                  /\ err'[r] = "ER_DUP_ENTRY"
                  /\ attempts[r] < MaxAttempts
                  /\ attempts'[r] = attempts[r]
                  /\ pending'[r] = {}
            /\ (pc[r] \in {"insert", "commit"} /\ pc'[r] \notin {pc[r], "commit", "reread"}
                /\ ~(err'[r] = "ER_DUP_ENTRY" /\ attempts[r] < MaxAttempts)) =>
                  pc'[r] = "done"
            /\ (pc[r] = "begin" /\ pc'[r] # "begin") =>
                  /\ pc'[r] = "insert"
                  /\ attempts'[r] = attempts[r] + 1
                  /\ LET seqs == {o.order_seq : o \in {x \in rows :
                                     /\ x.company_id = req[r].companyId
                                     /\ x.order_seq_date = seqDate[r]}}
                     IN  nextSeq'[r] = IF seqs = {} THEN 1
                                       ELSE 1 + CHOOSE m \in seqs : \A x \in seqs : x <= m]_vars

\* a create that lost four races is in its fifth attempt, holding the row
\* with the number after the four that beat it
C27_Witness ==
    \E r \in Reqs :
        /\ req[r].kind = "create"
        /\ attempts[r] = MaxAttempts
        /\ pc[r] = "commit"
        /\ err[r] = "ER_DUP_ENTRY"
        /\ nextSeq[r] = MaxAttempts
        /\ \E o \in pending[r] : o.order_seq = nextSeq[r]


\* C28: a create attempt that fails inside its transaction with an error
\* other than a sequence conflict is rolled back and not retried: the step
\* ends the request with 500, publishes nothing, commits nothing, and the row
\* the attempt had inserted is in no connection's view afterwards.
C28_FailureRolledBackNotRetried ==
    [][\A r \in Reqs :
          (/\ pc[r] \in {"insert", "commit"}
           /\ pc'[r] \notin {"commit", "reread"}
           /\ err'[r] = "ER_OTHER") =>
              /\ pc'[r] = "done"
              /\ resp'[r] = 500
              /\ attempts'[r] = 0
              /\ insertId'[r] = 0
              /\ rows' = rows
              /\ events' = events
              /\ pending'[r] = {}
              /\ \A o \in pending[r] : \A q \in Reqs : o \notin rows' \cup pending'[q]]_vars

\* the only create so far inserted its row (the id is used up) and then
\* failed: it was answered 500, and the table and every transaction are empty
C28_Witness ==
    \E r \in Reqs :
        /\ req[r].kind = "create" /\ pc[r] = "done" /\ resp[r] = 500
        /\ err[r] = "ER_OTHER"
        /\ insertId[r] = 0
        /\ nextId = 2
        /\ rows = {}
        /\ \A q \in Reqs : pending[q] = {}
        /\ aborted # {}


C30_DayDerivedOnce ==
    [][\A r \in Reqs :
          /\ (pc[r] = "idle" /\ pc'[r] = "begin") =>
                /\ attempts'[r] = 0
                /\ seqDate'[r] = IF req'[r].orderType = "preorder"
                                    /\ req'[r].scheduledAt # NullTs
                                 THEN UTCDate(req'[r].scheduledAt)
                                 ELSE UTCDate(now)
          /\ (pc[r] \in {"begin", "insert", "commit"}
              /\ pc'[r] \in {"begin", "insert", "commit"}) =>
                /\ seqDate'[r] = seqDate[r]
                /\ req'[r] = req[r]
          /\ (pc[r] = "begin" /\ pc'[r] = "insert") =>
                nextSeq'[r] = allocateDailySeq(r, req[r].companyId, seqDate[r])
          /\ (pc[r] = "insert" /\ pc'[r] = "commit") =>
                \A o \in pending'[r] :
                    o.company_id = req[r].companyId /\ o.order_seq_date = seqDate[r]
          /\ (pc[r] = "commit" /\ pc'[r] = "reread") =>
                \A o \in pending[r] :
                    /\ o \in rows'
                    /\ o.company_id = req[r].companyId
                    /\ o.order_seq_date = seqDate[r]
                    /\ o.order_seq_date = IF req[r].orderType = "preorder"
                                             /\ req[r].scheduledAt # NullTs
                                          THEN UTCDate(req[r].scheduledAt)
                                          ELSE UTCDate(orderNo[r])]_vars

\* an active order requested on day 0 lost a race, was retried when the clock
\* had reached day 1, and holds a row of day 0 with the next number of day 0
C30_Witness ==
    \E r \in Reqs : \E o \in pending[r] :
        /\ req[r].kind = "create" /\ req[r].orderType = "active"
        /\ pc[r] = "commit"
        /\ attempts[r] = 2 /\ err[r] = "ER_DUP_ENTRY"
        /\ UTCDate(orderNo[r]) = 0
        /\ UTCDate(now) = 1
        /\ o.order_seq_date = 0
        /\ o.order_seq = 2


\* C31: per-order event order: every order_updated event is preceded in the
\* log of broadcasts by the order_created event of the same order.
C31_CreatedBeforeUpdated ==
    \A j \in 1..Len(events) :
        events[j].type = "order_updated" =>
            \E i \in 1..(j - 1) :
                /\ events[i].type = "order_created"
                /\ events[i].order.id = events[j].order.id

\* a PATCH that found the committed order has published order_updated while
\* the create of that order is still between its COMMIT and its broadcast
C31_Witness ==
    \E r \in Reqs : \E q \in Reqs : \E j \in 1..Len(events) :
        /\ req[r].kind = "create" /\ pc[r] = "reread"
        /\ req[q].kind = "patch" /\ pc[q] = "done" /\ affected[q] = 1
        /\ events[j].type = "order_updated" /\ events[j].req = q
        /\ events[j].order.id = insertId[r]
        /\ EventsOf(r) = {}


\* C32: write isolation between tenants: the UPDATE of a PUT or of a PATCH
\* leaves every order of a tenant other than the caller's as it was,
\* whatever id is given, and an order_updated event carries an order of the
\* tenant of the caller that published it.
C32_WriteIsolation ==
    /\ [][\A r \in Reqs :
            (pc[r] = "idle" /\ pc'[r] = "reread" /\ req'[r].kind \in {"put", "patch"}) =>
                \A o \in rows : o.company_id # req'[r].companyId => o \in rows']_vars
    /\ [](\A i \in 1..Len(events) :
            events[i].type = "order_updated" =>
                /\ events[i].companyId = req[events[i].req].companyId
                /\ \A o \in rows :
                      o.order_id = events[i].order.id =>
                          o.company_id = req[events[i].req].companyId)

\* tenant 2 has sent a PUT and a PATCH with the id of tenant 1's order: both
\* matched no row, the order is as created, and nothing was published
C32_Witness ==
    \E q \in Reqs : \E p \in Reqs : \E o \in rows :
        /\ req[q].kind = "patch" /\ pc[q] = "reread" /\ req[q].companyId = 2
        /\ req[p].kind = "put" /\ pc[p] = "done" /\ req[p].companyId = 2
        /\ resp[p] = 404
        /\ o.order_id = req[q].id /\ o.company_id = 1
        /\ affected[q] = 0 /\ affected[p] = 0
        /\ o.status = "new"
        /\ \A i \in 1..Len(events) : events[i].type = "order_created"


\* C33: a create that acquired a connection releases it exactly once on
\* every path: not while the handler runs, once when it has ended (never for
\* a request that acquired none), and in the step of the release the
\* transaction is over: committed before the re-read, or rolled back by the
\* catch, with no row pending.
C33_ReleasedExactlyOnce ==
    /\ [](\A r \in Reqs :
            /\ pc[r] # "done" => released[r] = 0
            /\ pc[r] = "done" =>
                  released[r] = IF req[r].kind = "create" /\ Validate(req[r].fields) = 0
                                THEN 1 ELSE 0)
    /\ [][\A r \in Reqs :
            released'[r] # released[r] =>
                /\ released'[r] = released[r] + 1
                /\ pc'[r] = "done"
                /\ pending'[r] = {}
                /\ \/ pc[r] = "reread"
                   \/ /\ pc[r] \in {"insert", "commit"}
                      /\ err'[r] \in {"ER_DUP_ENTRY", "ER_OTHER"}]_vars

\* the create that lost its fifth race has ended with 500 and one release;
\* a create that beat it has ended with 200 and one release, and another
\* ended with 500 after its commit, also with one release
C33_Witness ==
    \E r \in Reqs : \E q \in Reqs : \E p \in Reqs :
        /\ req[r].kind = "create" /\ pc[r] = "done" /\ resp[r] = 500
        /\ err[r] = "ER_DUP_ENTRY" /\ insertId[r] = 0 /\ released[r] = 1
        /\ req[q].kind = "create" /\ pc[q] = "done" /\ resp[q] = 200
        /\ insertId[q] # 0 /\ released[q] = 1
        /\ req[p].kind = "create" /\ pc[p] = "done" /\ resp[p] = 500
        /\ insertId[p] # 0 /\ released[p] = 1


C35_EnabledHasSecret ==
    users.totp_enabled => users.totp_secret # "NULL"

\* the second factor is set up and enabled: a setup2FA and a verifySetup2FA
\* were answered 200 and the row is enabled with the secret stored
C35_Witness ==
    /\ users.totp_enabled
    /\ users.totp_secret \in Secrets
    /\ \E a, b \in AuthReqs :
          /\ twoFA[a] = [fn |-> "setup2FA", pc |-> "done", secret |-> "NULL", resp |-> 200]
          /\ twoFA[b] = [fn |-> "verifySetup2FA", pc |-> "done", secret |-> "NULL",
                         resp |-> 200]

\* C36: under the SQLite adapter the transactions of different connection
\* objects are isolated: beginTransaction on an object never throws because
\* another object has a transaction open, and a rollback on an object (by
\* rollback() or by release()) takes away only rows that were issued through
\* that object, none issued through another object or through pool.query.
C36_ConnectionsIsolated ==
    /\ [](\A c \in Conns : conns[c].threw # "beginTransaction")
    /\ [][\A c \in Conns :
            (/\ conns[c].inTransaction
             /\ ~conns'[c].inTransaction
             /\ conns'[c].last \in {"rollback", "release"}) =>
                \A w \in db.main \ db'.main : w.by = c]_vars

\* object 1 rolled its transaction back and the handle holds nothing, though
\* the last call on object 2 was an INSERT
C36_Witness ==
    /\ conns[1].last = "rollback"
    /\ conns[2].last = "query"
    /\ conns[2].threw = "none"
    /\ ~db.inTransaction
    /\ db.main = {}

\* C37: every broadcast goes only to sockets whose clientType is admin at
\* that moment; a socket becomes admin only in the step in which the server
\* handles its hello with role admin; and a location message handled on a
\* socket whose clientType is admin leaves the stored courier locations as
\* they are and makes no broadcast.
C37_AdminsOnly ==
    [][/\ Len(events') > Len(events) =>
            events'[Len(events')].to \subseteq
                {w.id : w \in {x \in clients : x.clientType = "admin"}}
       /\ \A w \in clients' :
            (/\ w.clientType = "admin"
             /\ \A x \in clients : x.id = w.id => x.clientType # "admin") =>
                /\ call'.fn = "message"
                /\ call'.ws = w.id
                /\ call'.data = [type |-> "hello", role |-> "admin"]
       /\ (/\ call' # call
           /\ call'.fn = "message"
           /\ call'.data.type = "location"
           /\ \E w \in clients : w.id = call'.ws /\ w.clientType = "admin") =>
                /\ state' = state
                /\ events' = events]_vars

\* socket 1 said hello as admin and socket 2 sent its location: socket 1 was
\* sent the broadcast, the location is stored; then socket 1 itself sent a
\* location, which was the last message handled
C37_Witness ==
    /\ \E w \in clients : w.id = 1 /\ w.clientType = "admin"
    /\ Len(events) = 1
    /\ events[1].type = "location"
    /\ events[1].to = {1}
    /\ state = {[courierId |-> "c1", lat |-> 1, lng |-> 1]}
    /\ call = [fn |-> "message", ws |-> 1,
               data |-> [type |-> "location", courierId |-> "c1", lat |-> Num(2),
                         lng |-> Num(1)]]
====
